---------------------------- MODULE Spec2Model ----------------------------
(***************************************************************************)
(* State-machine model of the two reliability layers of DocFusioner-server *)
(*   - app/vector_store/chroma_manager.py : ChromaManager                  *)
(*   - app/services/llm_adapter.py        : _OpenAICompatibleAdapter and   *)
(*                                          the client cache               *)
(* Each subsystem has its own specification (SpecUpsert, SpecManager,      *)
(* SpecStream, SpecChat, SpecCache); the variables of the other subsystems *)
(* stay at their initial values under it.                                  *)
(***************************************************************************)
EXTENDS Integers, Sequences, FiniteSets, TLC

VARIABLES
    \* ---- ChromaManager.upsert_chunks ----
    up_pc,          \* "idle" | "loop" | "returned" | "raised"
    chunks,         \* the input sequence (each chunk is represented by its chroma_id)
    batch_size,     \* the batch_size argument
    i,              \* the next value of range(0, len(chunks), batch_size)
    stack,          \* pending _upsert_batch invocations, innermost first
    success_ids,    \* the success_ids list
    failed_ids,     \* the failed_ids list
    writes,         \* history: every collection.upsert call, [name, ids, ok]
    collection      \* the local variable collection (a handle)

upVars == <<up_pc, chunks, batch_size, i, stack, success_ids, failed_ids, writes,
            collection>>

VARIABLES
    \* ---- _OpenAICompatibleAdapter.chat_stream ----
    st_pc,          \* "idle" | "create" | "iter" | "at_delta" | "at_error" | "at_done" | "closed" | "abandoned"
    events,         \* the StreamEvents yielded so far, in order
    finish_reason,  \* the local variable finish_reason
    cur,            \* the chunk being processed while suspended at `yield delta`
    received,       \* history: the chunks the network stream has delivered
    requests,       \* history: how many create calls chat_stream has issued
    pending,        \* the exception in flight while the finally clause is suspended, or None
    raised          \* the exception the generator raised to its consumer, or None

stVars == <<st_pc, events, finish_reason, cur, received, requests, pending, raised>>

VARIABLES
    \* ---- _OpenAICompatibleAdapter.chat / _call_with_retry / _ensure_json ----
    ch_pc,          \* "idle" | "check" | "inflight" | "sleeping" | "returned" | "raised"
    stage,          \* the running _call_with_retry: "initial" | "repair_json" | "repair_schema"
    opts,           \* chat's keyword arguments: response_format, json_schema, deadline
    clock,          \* time.monotonic(), in seconds
    start,          \* chat's local `start`
    attempt,        \* _call_with_retry's loop variable
    backoff,        \* the pending asyncio.sleep, in seconds
    kwargs,         \* the kwargs of the running _call_with_retry: its messages
    raw,            \* _ensure_json's `raw` (chat's raw_content)
    result,         \* the ChatResult returned by chat, or NoResult
    error,          \* the error raised by chat, or NoError
    log,            \* history of the latest _call_with_retry: responses and sleeps
    calls,          \* history of chat: one record per _call_with_retry invocation
    creates         \* history of chat: how many create calls it has issued

chVars == <<ch_pc, stage, opts, clock, start, attempt, backoff, kwargs, raw,
            result, error, log, calls, creates>>

VARIABLES
    \* ---- ChromaManager and its backing store ----
    collections,       \* the backing store: the names of the collections it holds
    collection_cache,  \* self._collection_cache: entries [name, handle]
    store_calls,       \* the backing-store calls of the latest manager operation, in order
    mg_op              \* the latest query / delete_by_doc_id / count / get_collection / upsert_chunks call and its outcome

mgVars == <<collections, collection_cache, store_calls, mg_op>>

VARIABLES
    \* ---- _client_cache and _get_or_create_openai_client ----
    client_cache,   \* _client_cache: entries [key, client, created_at]
    cc_clock,       \* time.monotonic(), in seconds
    constructed,    \* history: every AsyncOpenAI constructed, [client, at]
    lookups,        \* history: how many _get_or_create_openai_client calls were made
    cc_op           \* the latest _get_or_create_openai_client call: key, now, the client returned

ccVars == <<client_cache, cc_clock, constructed, lookups, cc_op>>

VARIABLES
    \* ---- get_llm_client and the LLMClients it has returned ----
    dynamic_config, \* dynamic_config_service._cache: llm_provider, llm_model
    config_reads,   \* history: how many dynamic_config_service.get() calls were made
    llm_clients,    \* the LLMClients returned so far, in order
    cl_last         \* the latest create call: through which LLMClient, on which handle, with which model

clVars == <<dynamic_config, config_reads, llm_clients, cl_last>>

vars == <<upVars, stVars, chVars, mgVars, ccVars, clVars>>

\* What each subsystem's actions leave alone: the other subsystems' variables.
\* upsert_chunks is a manager operation, so its actions say themselves what
\* they do to the manager's variables.
upFrame == <<stVars, chVars, ccVars, clVars>>

stFrame == <<upVars, chVars, mgVars, ccVars, clVars>>

chFrame == <<upVars, stVars, mgVars, ccVars, clVars>>

mgFrame == <<upVars, stVars, chVars, ccVars, clVars>>

ccFrame == <<upVars, stVars, chVars, mgVars, clVars>>

clFrame == <<upVars, stVars, chVars, mgVars>>

(***************************************************************************)
(* Generic helpers                                                         *)
(***************************************************************************)
\* Python's None.
None == "None"

Min(a, b) == IF a <= b THEN a ELSE b

Range(s) == {s[k] : k \in DOMAIN s}

\* Python s[a:b] for 0 <= a, on a 1-based TLA+ sequence: elements a+1 .. min(b, len).
Slice(s, a, b) == SubSeq(s, a + 1, Min(b, Len(s)))

IsInjective(s) == \A p, q \in DOMAIN s : s[p] = s[q] => p = q

(***************************************************************************)
(* Collection names: _slugify_model, build_collection_name, get_collection *)
(***************************************************************************)
\* Model and collection names are sequences of characters, so that lower(),
\* the regular expression and startswith() are computed on them.
COLLECTION_PREFIX == <<"d", "o", "c", "_", "c", "h", "u", "n", "k", "s", "_", "_">>

LowerAlnum ==
    {"a", "b", "c", "d", "e", "f", "g", "h", "i", "j", "k", "l", "m", "n", "o", "p",
     "q", "r", "s", "t", "u", "v", "w", "x", "y", "z",
     "0", "1", "2", "3", "4", "5", "6", "7", "8", "9"}

UpperToLower ==
    [A |-> "a", B |-> "b", C |-> "c", D |-> "d", E |-> "e", F |-> "f", G |-> "g",
     H |-> "h", I |-> "i", J |-> "j", K |-> "k", L |-> "l", M |-> "m", N |-> "n",
     O |-> "o", P |-> "p", Q |-> "q", R |-> "r", S |-> "s", T |-> "t", U |-> "u",
     V |-> "v", W |-> "w", X |-> "x", Y |-> "y", Z |-> "z"]

\* str.lower()
Lower(s) == [k \in DOMAIN s |-> IF s[k] \in DOMAIN UpperToLower THEN UpperToLower[s[k]] ELSE s[k]]

\* re.sub(r"[^a-z0-9]+", "_", s): every maximal run of other characters
\* becomes one underscore.
RECURSIVE SubNonAlnum(_)
SubNonAlnum(s) ==
    IF s = <<>> THEN <<>>
    ELSE IF Head(s) \in LowerAlnum THEN <<Head(s)>> \o SubNonAlnum(Tail(s))
    ELSE IF Tail(s) # <<>> /\ Head(Tail(s)) \notin LowerAlnum THEN SubNonAlnum(Tail(s))
    ELSE <<"_">> \o SubNonAlnum(Tail(s))

\* str.strip("_")
RECURSIVE StripUnderscores(_)
StripUnderscores(s) ==
    IF s = <<>> THEN <<>>
    ELSE IF Head(s) = "_" THEN StripUnderscores(Tail(s))
    ELSE IF s[Len(s)] = "_" THEN StripUnderscores(SubSeq(s, 1, Len(s) - 1))
    ELSE s

slugify_model(embed_model) == StripUnderscores(SubNonAlnum(Lower(embed_model)))

build_collection_name(embed_model) == COLLECTION_PREFIX \o slugify_model(embed_model)

\* StartsWithPrefix that tests for "doc_chunks_" only.
StartsWithShortPrefix(name) ==
    /\ Len(name) >= Len(COLLECTION_PREFIX) - 1
    /\ SubSeq(name, 1, Len(COLLECTION_PREFIX) - 1)
          = SubSeq(COLLECTION_PREFIX, 1, Len(COLLECTION_PREFIX) - 1)

\* name.startswith(COLLECTION_PREFIX)
StartsWithPrefix(name) ==
    /\ Len(name) >= Len(COLLECTION_PREFIX)
    /\ SubSeq(name, 1, Len(COLLECTION_PREFIX)) = COLLECTION_PREFIX

\* The embed_model arguments in use: "bge-m3", "BGE_M3" and "e5".
EmbedModels ==
    {<<"b", "g", "e", "-", "m", "3">>, <<"B", "G", "E", "_", "M", "3">>, <<"e", "5">>}

\* No embed_model: None, or the absent metadata of a get_or_create call.
NoModel == <<>>

\* A filter (`where`) is a dict, held as its set of [key, val] entries, or None.
\* A value is a number, a {"$in": [numbers]} condition or a string.
NumVal(n) == [op |-> "eq", nums |-> <<n>>, text |-> ""]

InVal(ns) == [op |-> "in", nums |-> ns, text |-> ""]

TextVal(t) == [op |-> "eq", nums |-> <<>>, text |-> t]

Entry(k, v) == [key |-> k, val |-> v]

NoWhere == [given |-> FALSE, items |-> {}]

Where(items) == [given |-> TRUE, items |-> items]

\* d[k] = v
Put(d, k, v) == {e \in d : e.key # k} \cup {Entry(k, v)}

\* A call to the backing store: client.get_or_create_collection(name, metadata)
\* or a method of the collection `name`. embed_model is the metadata's
\* embed_model (with "hnsw:space": "cosine"), NoModel when no metadata is passed.
StoreCall(op, name, embed_model, where) ==
    [op |-> op, name |-> name, embed_model |-> embed_model, where |-> where]

\* A collection handle: the collection it stands for.
Handle(name) == [name |-> name]

NoHandle == Handle(<<>>)

\* CollectionNameOf of a manager that keeps every model in one collection.
CollectionNameOfShared == [m \in EmbedModels |-> build_collection_name(<<"e", "5">>)]

\* build_collection_name on the models in use, computed once.
CollectionNameOf == [m \in EmbedModels |-> build_collection_name(m)]

\* GetCollection that takes whatever handle the cache holds, without looking
\* at its name.
GetCollectionAnyCached(embed_model, cache, colls) ==
    LET collection_name == CollectionNameOf[embed_model]
    IN  IF cache # {}
        THEN [handle |-> (CHOOSE e \in cache : TRUE).handle,
              cache |-> cache, colls |-> colls, calls |-> <<>>]
        ELSE [handle |-> Handle(collection_name),
              cache |-> cache \cup {[name |-> collection_name,
                                     handle |-> Handle(collection_name)]},
              colls |-> colls \cup {collection_name},
              calls |-> <<StoreCall("get_or_create", collection_name, embed_model, NoWhere)>>]

\* get_collection(embed_model) in the manager state (cache, colls): the
\* handle it returns, the state it leaves and the store calls it issues.
GetCollection(embed_model, cache, colls) ==
    LET collection_name == CollectionNameOf[embed_model]
    IN  IF \E e \in cache : e.name = collection_name
        THEN [handle |-> (CHOOSE e \in cache : e.name = collection_name).handle,
              cache |-> cache, colls |-> colls, calls |-> <<>>]
        ELSE [handle |-> Handle(collection_name),
              cache |-> cache \cup {[name |-> collection_name,
                                     handle |-> Handle(collection_name)]},
              colls |-> colls \cup {collection_name},
              calls |-> <<StoreCall("get_or_create", collection_name, embed_model, NoWhere)>>]

(***************************************************************************)
(* ChromaManager.get_collection, query, delete_by_doc_id, count            *)
(***************************************************************************)
\* Optional arguments: None, or a value.
NoEmbedModel == [given |-> FALSE, model |-> NoModel]

EmbedModel(m) == [given |-> TRUE, model |-> m]

NoDocId == [given |-> FALSE, v |-> 0]

DocId(n) == [given |-> TRUE, v |-> n]

NoDocIds == [given |-> FALSE, ids |-> <<>>]

DocIds(ns) == [given |-> TRUE, ids |-> ns]

NoExtraWhere == [given |-> FALSE, items |-> {}]

ExtraWhere(items) == [given |-> TRUE, items |-> items]

\* The arguments drawn for query and delete_by_doc_id. doc_id 0 and the empty
\* doc_ids list are falsy but not None.
DocIdArgs == {NoDocId, DocId(0), DocId(7)}

DocIdsArgs == {NoDocIds, DocIds(<<>>), DocIds(<<1, 2>>)}

ExtraWhereArgs ==
    {NoExtraWhere,
     ExtraWhere({}),
     ExtraWhere({Entry("file_type", TextVal("pdf"))}),
     ExtraWhere({Entry("doc_id", NumVal(99))}),
     ExtraWhere({Entry("doc_id", InVal(<<99>>)), Entry("section", TextVal("intro")),
                 Entry("filename", TextVal("a.docx"))}),
     ExtraWhere({Entry("chunk_index", NumVal(0)), Entry("$or", TextVal("x"))})}

DeleteDocIds == {5, 9}

\* Collections another client of the same store may create: "doc_chunks__old"
\* and "doc_chunks_x" (one underscore only).
ForeignNames ==
    {COLLECTION_PREFIX \o <<"o", "l", "d">>,
     <<"d", "o", "c", "_", "c", "h", "u", "n", "k", "s", "_", "x">>}

\* The latest manager operation, its arguments and its outcome ("returned",
\* or the exception raised); ret is the handle get_collection returned.
Op(op, embed_model, doc_id, doc_ids, extra_where, across, outcome, ret) ==
    [op |-> op, embed_model |-> embed_model, doc_id |-> doc_id, doc_ids |-> doc_ids,
     extra_where |-> extra_where, across_all_models |-> across, outcome |-> outcome,
     ret |-> ret]

\* No manager operation yet.
NoOp == Op(None, NoEmbedModel, NoDocId, NoDocIds, NoExtraWhere, FALSE, None, NoHandle)

\* A manager on a backing store that holds no collection yet.
ManagerInit ==
    /\ collections = {}
    /\ collection_cache = {}
    /\ store_calls = <<>>
    /\ mg_op = NoOp

get_collection(embed_model) ==
    /\ UNCHANGED mgFrame
    /\ LET g == GetCollection(embed_model, collection_cache, collections)
       IN  /\ collection_cache' = g.cache
           /\ collections' = g.colls
           /\ store_calls' = g.calls
           /\ mg_op' = Op("get_collection", EmbedModel(embed_model), NoDocId, NoDocIds,
                          NoExtraWhere, FALSE, "returned", g.handle)

\* DocFilter that lets the single doc_id win over doc_ids.
DocFilterSingleFirst(doc_id, doc_ids) ==
    IF doc_id.given THEN {Entry("doc_id", NumVal(doc_id.v))}
    ELSE IF doc_ids.given THEN {Entry("doc_id", InVal(doc_ids.ids))}
    ELSE {}

\* `where = {}` and the doc_ids / doc_id branches of query.
DocFilter(doc_id, doc_ids) ==
    IF doc_ids.given THEN {Entry("doc_id", InVal(doc_ids.ids))}
    ELSE IF doc_id.given THEN {Entry("doc_id", NumVal(doc_id.v))}
    ELSE {}

\* A whitelist that lets doc_id through.
WhitelistWithDocId == {"file_type", "filename", "section", "doc_id"}

WHERE_WHITELIST == {"file_type", "filename", "section"}

\* `for k, v in extra_where.items(): if k in _WHERE_WHITELIST: where[k] = v`
RECURSIVE ApplyExtraWhere(_, _)
ApplyExtraWhere(where, items) ==
    IF items = {} THEN where
    ELSE LET e == CHOOSE x \in items : TRUE
         IN  ApplyExtraWhere(IF e.key \in WHERE_WHITELIST THEN Put(where, e.key, e.val)
                             ELSE where,
                             items \ {e})

\* The dict `where` that query builds.
QueryWhere(doc_id, doc_ids, extra_where) ==
    IF extra_where.given /\ extra_where.items # {}
    THEN ApplyExtraWhere(DocFilter(doc_id, doc_ids), extra_where.items)
    ELSE DocFilter(doc_id, doc_ids)

\* `where=where if where else None`
SentWhere(where) == IF where # {} THEN Where(where) ELSE NoWhere

query(embed_model, doc_id, doc_ids, extra_where) ==
    /\ UNCHANGED mgFrame
    /\ LET g == GetCollection(embed_model, collection_cache, collections)
           where == QueryWhere(doc_id, doc_ids, extra_where)
       IN  /\ collection_cache' = g.cache
           /\ collections' = g.colls
           /\ store_calls' = Append(g.calls,
                                    StoreCall("query", g.handle.name, NoModel, SentWhere(where)))
           /\ mg_op' = Op("query", EmbedModel(embed_model), doc_id, doc_ids, extra_where,
                          FALSE, "returned", NoHandle)

\* The names _iter_model_collection_names yields, as a set.
ModelCollectionNames(colls) == {n \in colls : StartsWithPrefix(n)}

\* The orders in which client.list_collections() may list the names of S.
Orders(S) == {o \in [1..Cardinality(S) -> S] : Range(o) = S}

\* The store calls of the across_all_models loop over the names in order o:
\* get_or_create_collection(name) and delete(where={"doc_id": d}) for each.
DeleteAllCalls(o, d) ==
    [k \in 1..(2 * Len(o)) |->
        IF k % 2 = 1
        THEN StoreCall("get_or_create", o[(k + 1) \div 2], NoModel, NoWhere)
        ELSE StoreCall("delete", o[k \div 2], NoModel, Where({Entry("doc_id", NumVal(d))}))]

\* delete_by_doc_id that treats a missing embed_model as across_all_models.
delete_by_doc_id_lenient(d, embed_model, across) ==
    /\ UNCHANGED mgFrame
    /\ IF across \/ ~embed_model.given
       THEN /\ \E o \in Orders(ModelCollectionNames(collections)) :
                  store_calls' = <<StoreCall("list_collections", <<>>, NoModel, NoWhere)>>
                                   \o DeleteAllCalls(o, d)
            /\ mg_op' = Op("delete_by_doc_id", embed_model, DocId(d), NoDocIds, NoExtraWhere,
                           across, "returned", NoHandle)
            /\ UNCHANGED <<collections, collection_cache>>
       ELSE LET g == GetCollection(embed_model.model, collection_cache, collections)
            IN  /\ collection_cache' = g.cache
                /\ collections' = g.colls
                /\ store_calls' = Append(g.calls,
                                         StoreCall("delete", g.handle.name, NoModel,
                                                   Where({Entry("doc_id", NumVal(d))})))
                /\ mg_op' = Op("delete_by_doc_id", embed_model, DocId(d), NoDocIds,
                               NoExtraWhere, across, "returned", NoHandle)

\* delete_by_doc_id; the store lists the model collections in some order o.
delete_by_doc_id(d, embed_model, across) ==
    /\ UNCHANGED mgFrame
    /\ IF across
       THEN /\ \E o \in Orders(ModelCollectionNames(collections)) :
                  store_calls' = <<StoreCall("list_collections", <<>>, NoModel, NoWhere)>>
                                   \o DeleteAllCalls(o, d)
            /\ mg_op' = Op("delete_by_doc_id", embed_model, DocId(d), NoDocIds, NoExtraWhere,
                           across, "returned", NoHandle)
            /\ UNCHANGED <<collections, collection_cache>>
       ELSE IF ~embed_model.given
       THEN /\ store_calls' = <<>>
            /\ mg_op' = Op("delete_by_doc_id", embed_model, DocId(d), NoDocIds, NoExtraWhere,
                           across, "ValueError", NoHandle)
            /\ UNCHANGED <<collections, collection_cache>>
       ELSE LET g == GetCollection(embed_model.model, collection_cache, collections)
            IN  /\ collection_cache' = g.cache
                /\ collections' = g.colls
                /\ store_calls' = Append(g.calls,
                                         StoreCall("delete", g.handle.name, NoModel,
                                                   Where({Entry("doc_id", NumVal(d))})))
                /\ mg_op' = Op("delete_by_doc_id", embed_model, DocId(d), NoDocIds,
                               NoExtraWhere, across, "returned", NoHandle)

count(embed_model) ==
    /\ UNCHANGED mgFrame
    /\ LET g == GetCollection(embed_model, collection_cache, collections)
       IN  /\ collection_cache' = g.cache
           /\ collections' = g.colls
           /\ store_calls' = Append(g.calls, StoreCall("count", g.handle.name, NoModel, NoWhere))
           /\ mg_op' = Op("count", EmbedModel(embed_model), NoDocId, NoDocIds, NoExtraWhere,
                          FALSE, "returned", NoHandle)

\* Another client of the backing store creates a collection.
StoreCreate(name) ==
    /\ UNCHANGED mgFrame
    /\ name \notin collections
    /\ collections' = collections \cup {name}
    /\ UNCHANGED <<collection_cache, store_calls, mg_op>>

ManagerNext ==
    \/ \E m \in EmbedModels : get_collection(m)
    \/ \E m \in EmbedModels, doc_id \in DocIdArgs, doc_ids \in DocIdsArgs,
          extra_where \in ExtraWhereArgs : query(m, doc_id, doc_ids, extra_where)
    \/ \E d \in DeleteDocIds, m \in {NoEmbedModel} \cup {EmbedModel(x) : x \in EmbedModels},
          across \in BOOLEAN : delete_by_doc_id(d, m, across)
    \/ \E m \in EmbedModels : count(m)
    \/ \E name \in ForeignNames : StoreCreate(name)

(***************************************************************************)
(* ChromaManager.upsert_chunks / _upsert_batch                             *)
(***************************************************************************)
MaxChunks == 3

MaxBatch == 3

\* Three ids: every input of at most three chunks is one of these up to the
\* names of its ids.
ChunkIds == {"c1", "c2", "c3"}

\* The inputs drawn for a call: every sequence of at most MaxChunks ids
\* (repeated ids included) and every integer batch size in -1 .. MaxBatch.
ChunkInputs == UNION {[1..n -> ChunkIds] : n \in 0..MaxChunks}

BatchSizes == (-1)..MaxBatch

UpsertInit ==
    /\ up_pc = "idle"
    /\ chunks = <<>>
    /\ batch_size = 1
    /\ i = 0
    /\ stack = <<>>
    /\ success_ids = <<>>
    /\ failed_ids = <<>>
    /\ writes = <<>>
    /\ collection = NoHandle

\* upsert_chunks up to the for loop: the empty-input return, get_collection,
\* and range()'s ValueError for a zero step.
upsert_chunks(cs, bs, embed_model) ==
    /\ up_pc = "idle"
    /\ UNCHANGED upFrame
    /\ chunks' = cs
    /\ batch_size' = bs
    /\ success_ids' = <<>>
    /\ failed_ids' = <<>>
    /\ i' = 0
    /\ IF cs = <<>>
       THEN /\ up_pc' = "returned"
            /\ store_calls' = <<>>
            /\ UNCHANGED <<collection, collections, collection_cache>>
       ELSE LET g == GetCollection(embed_model, collection_cache, collections)
            IN  /\ collection' = g.handle
                /\ collection_cache' = g.cache
                /\ collections' = g.colls
                /\ store_calls' = g.calls
                /\ up_pc' = IF bs = 0 THEN "raised" ELSE "loop"
    /\ mg_op' = Op("upsert_chunks", EmbedModel(embed_model), NoDocId, NoDocIds, NoExtraWhere,
                   FALSE, "called", NoHandle)
    /\ UNCHANGED <<stack, writes>>

\* InRange that lets the loop run once more when k reaches len(chunks).
InRangeInclusive(k) == batch_size > 0 /\ k <= Len(chunks)

\* Whether k is an element of range(0, len(chunks), batch_size).
InRange(k) == batch_size > 0 /\ k < Len(chunks)

\* One step of `for i in range(...)`: call _upsert_batch on the next slice, or
\* leave the loop and return UpsertResult.
UpsertForBatch ==
    /\ up_pc = "loop"
    /\ UNCHANGED upFrame
    /\ stack = <<>>
    /\ IF InRange(i)
       THEN /\ stack' = <<Slice(chunks, i, i + batch_size)>>
            /\ i' = i + batch_size
            /\ up_pc' = "loop"
       ELSE /\ up_pc' = "returned"
            /\ UNCHANGED <<stack, i>>
    /\ UNCHANGED <<chunks, batch_size, success_ids, failed_ids, writes, collection>>
    /\ UNCHANGED mgVars

\* SplitBatch with the second half starting one chunk late (batch[mid + 1:]).
SplitBatchSkipsMid(batch) ==
    LET mid == Len(batch) \div 2
    IN  <<Slice(batch, 0, mid), Slice(batch, mid + 1, Len(batch))>>

\* SplitBatch whose halves share the middle chunk of a batch of three or more.
SplitBatchOverlapping(batch) ==
    LET mid == Len(batch) \div 2
    IN  <<Slice(batch, 0, IF Len(batch) > 2 THEN mid + 1 ELSE mid),
          Slice(batch, mid, Len(batch))>>

\* SplitBatch that recurses into the right half first.
SplitBatchRightFirst(batch) ==
    LET mid == Len(batch) \div 2
    IN  <<Slice(batch, mid, Len(batch)), Slice(batch, 0, mid)>>

\* The two recursive calls of a failed batch of more than one chunk, in call
\* order: batch[:mid] first, batch[mid:] second.
SplitBatch(batch) ==
    LET mid == Len(batch) \div 2
    IN  <<Slice(batch, 0, mid), Slice(batch, mid, Len(batch))>>

\* UpsertBatch that gives up on a rejected batch without splitting it: all of
\* its chunks are reported failed.
UpsertBatchNoSplit(ok) ==
    /\ up_pc = "loop"
    /\ UNCHANGED upFrame
    /\ stack # <<>>
    /\ writes' = Append(writes, [name |-> collection.name, ids |-> Head(stack), ok |-> ok])
    /\ success_ids' = IF ok THEN success_ids \o Head(stack) ELSE success_ids
    /\ failed_ids' = IF ok THEN failed_ids ELSE failed_ids \o Head(stack)
    /\ stack' = Tail(stack)
    /\ UNCHANGED <<up_pc, chunks, batch_size, i, collection>>
    /\ UNCHANGED mgVars

\* One invocation of _upsert_batch: the collection.upsert call on the innermost
\* pending batch, which the backing store accepts (ok) or rejects.
UpsertBatch(ok) ==
    /\ up_pc = "loop"
    /\ UNCHANGED upFrame
    /\ stack # <<>>
    /\ LET batch == Head(stack)
           rest == Tail(stack)
       IN  /\ writes' = Append(writes, [name |-> collection.name, ids |-> batch, ok |-> ok])
           /\ IF ok
              THEN /\ success_ids' = success_ids \o batch
                   /\ failed_ids' = failed_ids
                   /\ stack' = rest
              ELSE IF Len(batch) = 1
              THEN /\ failed_ids' = Append(failed_ids, batch[1])
                   /\ success_ids' = success_ids
                   /\ stack' = rest
              ELSE /\ stack' = SplitBatch(batch) \o rest
                   /\ UNCHANGED <<success_ids, failed_ids>>
    /\ UNCHANGED <<up_pc, chunks, batch_size, i, collection>>
    /\ UNCHANGED mgVars

UpsertNext ==
    \/ \E cs \in ChunkInputs, bs \in BatchSizes, m \in EmbedModels : upsert_chunks(cs, bs, m)
    \/ UpsertForBatch
    \/ \E ok \in BOOLEAN : UpsertBatch(ok)

\* The inputs of the upsert_chunks call that runs among other operations.
RoutingChunks == {<<"c1">>, <<"c1", "c2">>}

\* The manager is synchronous: another operation starts only when no
\* upsert_chunks call is in its loop.
NotUpserting == up_pc # "loop"

\* One manager serving operations for several models, one after the other:
\* any number of get_collection, query, count and single-model delete calls
\* before and after one upsert_chunks call.
RoutingNext ==
    \/ \E m \in EmbedModels : NotUpserting /\ get_collection(m)
    \/ \E m \in EmbedModels : NotUpserting /\ query(m, NoDocId, NoDocIds, NoExtraWhere)
    \/ \E m \in EmbedModels : NotUpserting /\ count(m)
    \/ \E m \in EmbedModels : NotUpserting /\ delete_by_doc_id(5, EmbedModel(m), FALSE)
    \/ \E cs \in RoutingChunks, bs \in 1..2, m \in EmbedModels : upsert_chunks(cs, bs, m)
    \/ UpsertForBatch
    \/ \E ok \in BOOLEAN : UpsertBatch(ok)

(***************************************************************************)
(* _OpenAICompatibleAdapter.chat_stream                                    *)
(***************************************************************************)
MaxStream == 3

\* Python truthiness of an optional string.
Truthy(x) == x # None /\ x # ""

\* A network chunk: whether chunk.choices is non-empty, and choices[0]'s
\* delta.content and finish_reason.
StreamChunks ==
    [choices : {TRUE}, content : {None, "", "hi"}, finish : {None, "stop", "length"}]
    \cup {[choices |-> FALSE, content |-> None, finish |-> None]}

\* The exceptions (subclasses of Exception) the request or the iteration raises;
\* each is represented by its str().
StreamErrors == {"timeout", "reset"}

NoChunk == [choices |-> FALSE, content |-> None, finish |-> None]

DeltaEvent(text) ==
    [type |-> "delta", text_delta |-> text, finish_reason |-> None, error_message |-> None]

ErrorEvent(msg) ==
    [type |-> "error", text_delta |-> None, finish_reason |-> None, error_message |-> msg]

DoneEvent(fr) ==
    [type |-> "done", text_delta |-> None, finish_reason |-> fr, error_message |-> None]

StreamInit ==
    /\ st_pc = "idle"
    /\ events = <<>>
    /\ finish_reason = "error"
    /\ cur = NoChunk
    /\ received = <<>>
    /\ requests = 0
    /\ pending = None
    /\ raised = None

\* The generator is started: kwargs are built, finish_reason = "error", and
\* the create call is issued.
chat_stream ==
    /\ st_pc = "idle"
    /\ UNCHANGED stFrame
    /\ st_pc' = "create"
    /\ finish_reason' = "error"
    /\ requests' = requests + 1
    /\ UNCHANGED <<events, cur, received, pending, raised>>

\* `await self._client.chat.completions.create(**kwargs)` returns the stream.
StreamCreate ==
    /\ st_pc = "create"
    /\ UNCHANGED stFrame
    /\ st_pc' = "iter"
    /\ UNCHANGED <<events, finish_reason, cur, received, requests, pending, raised>>

\* RecordFinish that keeps the first finish reason instead of the last.
RecordFinishKeepsFirst(fr, c) ==
    IF c.choices /\ Truthy(c.finish) /\ fr = "error" THEN c.finish ELSE fr

\* `if chunk.choices and chunk.choices[0].finish_reason: finish_reason = ...`
RecordFinish(fr, c) == IF c.choices /\ Truthy(c.finish) THEN c.finish ELSE fr

\* `if chunk.choices and chunk.choices[0].delta.content`
HasDelta(c) == c.choices /\ Truthy(c.content)

\* The loop body for one incoming chunk, up to its first suspension: a chunk
\* with text suspends at `yield delta`, any other chunk goes on to the
\* finish_reason test and the next iteration.
StreamChunk(c) ==
    /\ st_pc = "iter"
    /\ UNCHANGED stFrame
    /\ Len(received) < MaxStream
    /\ received' = Append(received, c)
    /\ IF HasDelta(c)
       THEN /\ events' = Append(events, DeltaEvent(c.content))
            /\ cur' = c
            /\ st_pc' = "at_delta"
            /\ UNCHANGED finish_reason
       ELSE /\ finish_reason' = RecordFinish(finish_reason, c)
            /\ UNCHANGED <<events, cur, st_pc>>
    /\ UNCHANGED <<requests, pending, raised>>

\* The consumer asks for the next event after a delta: the rest of the loop body.
StreamResumeDelta ==
    /\ st_pc = "at_delta"
    /\ UNCHANGED stFrame
    /\ finish_reason' = RecordFinish(finish_reason, cur)
    /\ cur' = NoChunk
    /\ st_pc' = "iter"
    /\ UNCHANGED <<events, received, requests, pending, raised>>

\* Caught that handles timeouts only.
CaughtTimeoutOnly(e) == e = "timeout"

\* `except Exception`: whether the handler catches e. Every exception the
\* request or the iteration raises is a subclass of Exception.
Caught(e) == e \in StreamErrors

\* The event of the finally clause.
FinallyEvent(fr) == DoneEvent(fr)

\* The create call or the iteration raises e: `except Exception as e: yield
\* error` if the handler catches it; otherwise the finally clause runs with
\* the exception in flight and suspends at `yield done`.
StreamFail(e) ==
    /\ st_pc \in {"create", "iter"}
    /\ UNCHANGED stFrame
    /\ IF Caught(e)
       THEN /\ events' = Append(events, ErrorEvent(e))
            /\ st_pc' = "at_error"
            /\ UNCHANGED pending
       ELSE /\ events' = Append(events, FinallyEvent(finish_reason))
            /\ st_pc' = "at_done"
            /\ pending' = e
    /\ UNCHANGED <<finish_reason, cur, received, requests, raised>>

\* The stream is exhausted: the finally clause yields done.
StreamEnd ==
    /\ st_pc = "iter"
    /\ UNCHANGED stFrame
    /\ events' = Append(events, FinallyEvent(finish_reason))
    /\ st_pc' = "at_done"
    /\ UNCHANGED <<finish_reason, cur, received, requests, pending, raised>>

\* The consumer asks for the next event after error: the finally clause yields done.
StreamResumeError ==
    /\ st_pc = "at_error"
    /\ UNCHANGED stFrame
    /\ events' = Append(events, FinallyEvent(finish_reason))
    /\ st_pc' = "at_done"
    /\ UNCHANGED <<finish_reason, cur, received, requests, pending, raised>>

\* The consumer asks for the next event after done: the generator finishes,
\* re-raising the exception in flight if there is one.
StreamResumeDone ==
    /\ st_pc = "at_done"
    /\ UNCHANGED stFrame
    /\ st_pc' = "closed"
    /\ raised' = pending
    /\ pending' = None
    /\ UNCHANGED <<events, finish_reason, cur, received, requests>>

\* The consumer calls aclose() on the generator suspended at a yield:
\* GeneratorExit is raised at that yield. `except Exception` does not catch it.
\* At `yield delta` or `yield error` the finally clause then runs and yields
\* done: a generator that yields while being closed makes aclose() raise
\* RuntimeError("async generator ignored GeneratorExit"), the yielded event is
\* dropped and the generator stays suspended in its finally clause. At
\* `yield done` the GeneratorExit leaves the generator and aclose() returns.
StreamClose ==
    /\ st_pc \in {"at_delta", "at_error", "at_done"}
    /\ UNCHANGED stFrame
    /\ IF st_pc = "at_done"
       THEN /\ st_pc' = "closed"
            /\ raised' = None
       ELSE /\ st_pc' = "abandoned"
            /\ raised' = "RuntimeError"
    /\ pending' = None
    /\ UNCHANGED <<events, finish_reason, cur, received, requests>>

StreamNext ==
    \/ chat_stream
    \/ StreamCreate
    \/ \E c \in StreamChunks : StreamChunk(c)
    \/ StreamResumeDelta
    \/ \E e \in StreamErrors : StreamFail(e)
    \/ StreamEnd
    \/ StreamResumeError
    \/ StreamResumeDone

\* A consumer that may stop consuming at any event.
StreamCloseNext ==
    \/ chat_stream
    \/ StreamCreate
    \/ \E c \in StreamChunks : StreamChunk(c)
    \/ StreamResumeDelta
    \/ \E e \in StreamErrors : StreamFail(e)
    \/ StreamEnd
    \/ StreamResumeError
    \/ StreamResumeDone
    \/ StreamClose

(***************************************************************************)
(* _OpenAICompatibleAdapter: data of chat, _call_with_retry, _ensure_json  *)
(***************************************************************************)
\* The adapter's fields, fixed at construction.
AdapterProvider == "deepseek"

AdapterModel == "deepseek-chat"

AdapterBaseUrl == "https://api.deepseek.com/v1"

\* A string is represented by what it is a prefix of and its length: [id, len]
\* is the first len characters of the text named id. `fields` is the field
\* list a corrective instruction names (empty for every other string).
Str(id, n) == [id |-> id, len |-> n, fields |-> <<>>]

EmptyStr == Str("", 0)

\* message.content of a response that carries none.
NoContent == Str(None, 0)

\* The response texts the endpoint may send: their full length and what
\* json.loads makes of them (ok: it parses; obj: the value is a dict; keys).
TextTable ==
    [bad      |-> [len |-> 4,   ok |-> FALSE, obj |-> FALSE, keys |-> {}],
     bad_long |-> [len |-> 620, ok |-> FALSE, obj |-> FALSE, keys |-> {}],
     list     |-> [len |-> 3,   ok |-> TRUE,  obj |-> FALSE, keys |-> {}],
     obj_a    |-> [len |-> 7,   ok |-> TRUE,  obj |-> TRUE,  keys |-> {"a"}],
     obj_ab   |-> [len |-> 13,  ok |-> TRUE,  obj |-> TRUE,  keys |-> {"a", "b"}],
     obj_ab_s |-> [len |-> 21,  ok |-> TRUE,  obj |-> TRUE,  keys |-> {"a", "b"}]]

TextIds == DOMAIN TextTable

Text(id) == Str(id, TextTable[id].len)

\* What message.content of a successful response may be.
Contents == {Text(id) : id \in TextIds} \cup {NoContent}

\* s[:n]
Prefix(s, n) == [s EXCEPT !.len = Min(s.len, n)]

RawOutputLimit == 500

\* json.loads(s): JSONDecodeError (ok = FALSE) for the empty string and for
\* every text that is not a JSON document.
JsonLoads(s) ==
    IF s.id \in TextIds /\ s.len = TextTable[s.id].len
    THEN [ok |-> TextTable[s.id].ok, obj |-> TextTable[s.id].obj, keys |-> TextTable[s.id].keys]
    ELSE [ok |-> FALSE, obj |-> FALSE, keys |-> {}]

\* json.dumps(json.loads(s)): the canonical spelling of a parsed document.
JsonDumps(s) ==
    IF s.id = "obj_ab_s" THEN Text("obj_ab") ELSE s

\* `resp.choices[0].message.content or ""`
ContentOrEmpty(c) == IF c = NoContent THEN EmptyStr ELSE c

\* json_schema arguments: None, {"required": ["b", "a"]}, {"properties": {"a": ..}}.
\* truthy is Python's truth value of the argument.
NoSchema == [name |-> None, truthy |-> FALSE, required |-> <<>>, properties |-> {}]

Schemas ==
    {NoSchema,
     [name |-> "req_b_a", truthy |-> TRUE, required |-> <<"b", "a">>, properties |-> {}],
     [name |-> "props_a", truthy |-> TRUE, required |-> <<>>, properties |-> {"a"}]}

\* `set(json_schema.get("required", []) or json_schema.get("properties", {}).keys())`
Expected(schema) ==
    IF schema.required # <<>> THEN Range(schema.required) ELSE schema.properties

\* sorted(expected), for the field names in use.
FieldRank == [a |-> 1, b |-> 2, c |-> 3]

RECURSIVE Sorted(_)
Sorted(S) ==
    IF S = {} THEN <<>>
    ELSE LET m == CHOOSE x \in S : \A y \in S : FieldRank[x] <= FieldRank[y]
         IN  <<m>> \o Sorted(S \ {m})

Msg(role, content) == [role |-> role, content |-> content]

\* The caller's messages.
UserMessages == <<Msg("user", Str("question", 8))>>

\* The schema hint: its text embeds json.dumps(json_schema).
SchemaHint(schema) == Msg("system", Str(schema.name, 30))

NotJsonInstruction == Msg("user", Str("not_valid_json", 30))

\* MissingFieldsInstruction that names the fields in reverse order.
MissingFieldsReversed(expected) ==
    LET f == Sorted(expected)
    IN  Msg("user", [id |-> "missing_fields", len |-> 30,
                     fields |-> [k \in DOMAIN f |-> f[Len(f) + 1 - k]]])

MissingFieldsInstruction(expected) ==
    Msg("user", [id |-> "missing_fields", len |-> 30, fields |-> Sorted(expected)])

\* kwargs["messages"] as chat builds it.
ChatMessages(o) ==
    IF o.response_format = "json" /\ o.json_schema.truthy
    THEN <<SchemaHint(o.json_schema)>> \o UserMessages
    ELSE UserMessages

\* The errors of app/exceptions.py with the context fields the adapter sets.
\* NoError stands for "nothing raised"; the other fields hold the dataclass defaults.
NoError ==
    [kind |-> None, provider |-> "", model |-> "", base_url |-> "",
     retry_count |-> 0, reason |-> "", raw_output |-> EmptyStr, tag |-> ""]

LLMAuthError == [NoError EXCEPT !.kind = "LLMAuthError",
                                !.provider = AdapterProvider, !.model = AdapterModel]

LLMModelNotFoundError == [NoError EXCEPT !.kind = "LLMModelNotFoundError",
                                         !.provider = AdapterProvider, !.model = AdapterModel]

LLMRateLimitError(n) == [NoError EXCEPT !.kind = "LLMRateLimitError",
                                        !.provider = AdapterProvider, !.retry_count = n]

\* tag tells the three messages apart: "api_error", "connect_failed", "retries_exhausted".
LLMConnectionError(tag) == [NoError EXCEPT !.kind = "LLMConnectionError",
                                           !.provider = AdapterProvider,
                                           !.base_url = AdapterBaseUrl, !.tag = tag]

LLMOutputParseError(reason, out) == [NoError EXCEPT !.kind = "LLMOutputParseError",
                                                    !.provider = AdapterProvider,
                                                    !.model = AdapterModel,
                                                    !.reason = reason, !.raw_output = out]

NoResult == [content |-> NoContent, finish_reason |-> None]

ChatResult(content) == [content |-> content, finish_reason |-> "stop"]

(***************************************************************************)
(* _ensure_json and the rest of chat: what follows the return of each      *)
(* _call_with_retry, up to the next await                                  *)
(***************************************************************************)
Return(content) ==
    [kind |-> "return", stage |-> None, messages |-> <<>>, raw |-> content, err |-> NoError]

Raise(err) ==
    [kind |-> "raise", stage |-> None, messages |-> <<>>, raw |-> NoContent, err |-> err]

Call(stg, messages, r) ==
    [kind |-> "call", stage |-> stg, messages |-> messages, raw |-> r, err |-> NoError]

\* The messages of a repair call: kwargs["messages"], the previous output as an
\* assistant message, and the corrective instruction.
RetryMessages(msgs, r, instruction) == msgs \o <<Msg("assistant", r), instruction>>

\* EnsureJsonResult that re-serializes the parsed document.
EnsureJsonReserialized(r) == JsonDumps(r)

\* What _ensure_json returns when no schema repair is needed: raw itself.
EnsureJsonResult(r) == r

\* _ensure_json from `if json_schema and isinstance(parsed, dict)` on, for a
\* raw that parsed.
SchemaCheck(o, msgs, r) ==
    LET parsed == JsonLoads(r)
        expected == Expected(o.json_schema)
    IN  IF /\ o.json_schema.truthy
           /\ parsed.obj
           /\ expected # {}
           /\ ~(expected \subseteq parsed.keys)
        THEN Call("repair_schema",
                  RetryMessages(msgs, r, MissingFieldsInstruction(expected)), r)
        ELSE Return(EnsureJsonResult(r))

\* _ensure_json from its entry to its first await or its return.
EnsureJson(o, msgs, r) ==
    IF ~JsonLoads(r).ok
    THEN Call("repair_json", RetryMessages(msgs, r, NotJsonInstruction), r)
    ELSE SchemaCheck(o, msgs, r)

\* RawOutput without the [:500] cut.
RawOutputWhole(retry_raw) == retry_raw

\* raw_output of an LLMOutputParseError.
RawOutput(retry_raw) == Prefix(retry_raw, RawOutputLimit)

\* _ensure_json after the invalid-JSON repair call returned retry_raw.
\* AfterRepairJson that answers an unparseable repair response with another
\* repair call.
AfterRepairJsonAgain(o, msgs, retry_raw) ==
    IF ~JsonLoads(retry_raw).ok
    THEN Call("repair_json", RetryMessages(msgs, retry_raw, NotJsonInstruction), retry_raw)
    ELSE SchemaCheck(o, msgs, retry_raw)

AfterRepairJson(o, msgs, retry_raw) ==
    IF ~JsonLoads(retry_raw).ok
    THEN Raise(LLMOutputParseError("json_invalid", RawOutput(retry_raw)))
    ELSE SchemaCheck(o, msgs, retry_raw)

\* _ensure_json after the missing-fields repair call returned retry_raw:
\* a JSONDecodeError, and the AttributeError of .keys() on a non-dict, fall
\* through to schema_mismatch.
AfterRepairSchema(o, retry_raw) ==
    LET retry_parsed == JsonLoads(retry_raw)
    IN  IF /\ retry_parsed.ok
           /\ retry_parsed.obj
           /\ Expected(o.json_schema) \subseteq retry_parsed.keys
        THEN Return(retry_raw)
        ELSE Raise(LLMOutputParseError("schema_mismatch", RawOutput(retry_raw)))

\* chat after the _call_with_retry of stage stg returned content.
AfterCall(stg, o, msgs, content) ==
    CASE stg = "initial" ->
            IF o.response_format = "json" THEN EnsureJson(o, msgs, content)
            ELSE Return(content)
      [] stg = "repair_json" -> AfterRepairJson(o, msgs, content)
      [] stg = "repair_schema" -> AfterRepairSchema(o, content)

(***************************************************************************)
(* _OpenAICompatibleAdapter.chat and _call_with_retry: the actions         *)
(***************************************************************************)
\* max_retries set one too high.
max_retries_plus_one == 2 + 1

max_retries == 2

DeadlineMargin == 5

BackoffCap == 3

TransportBackoff == 1

\* The deadline argument: None, or a number of seconds.
NoDeadline == [given |-> FALSE, at |-> 0]

Deadline(d) == [given |-> TRUE, at |-> d]

\* When chat is called (the monotonic clock then) and with which deadline.
CallTimes ==
    {[t0 |-> 0, deadline |-> NoDeadline],
     [t0 |-> 0, deadline |-> Deadline(6)],
     [t0 |-> 20, deadline |-> Deadline(30)]}

\* How long a request is in flight, in seconds.
Latencies == {0, 4}

\* random.uniform(0, 1): its two ends.
Jitters == {0, 1}

\* The status codes of an APIStatusError.
Statuses == {401, 404, 429, 503, 500}

\* response_format and json_schema of a call.
ChatFormats == [response_format : {None, "json"}, json_schema : Schemas]

ChatOptions(f, deadline) ==
    [response_format |-> f.response_format, json_schema |-> f.json_schema,
     deadline |-> deadline]

NoOptions == [response_format |-> None, json_schema |-> NoSchema, deadline |-> NoDeadline]

\* Entries of log. A response is "ok" (with its content), "status" (with its
\* status code) or "transport"; a sleep has its length.
RespEntry(what, status, content) ==
    [ev |-> "resp", what |-> what, status |-> status, content |-> content, secs |-> 0]

SleepEntry(secs) ==
    [ev |-> "sleep", what |-> None, status |-> 0, content |-> NoContent, secs |-> secs]

CallRecord(stg, messages) ==
    [stage |-> stg, messages |-> messages, returned |-> FALSE, ret |-> NoContent]

ChatInit ==
    /\ ch_pc = "idle"
    /\ stage = "initial"
    /\ opts = NoOptions
    /\ clock = 0
    /\ start = 0
    /\ attempt = 0
    /\ backoff = 0
    /\ kwargs = <<>>
    /\ raw = NoContent
    /\ result = NoResult
    /\ error = NoError
    /\ log = <<>>
    /\ calls = <<>>
    /\ creates = 0

\* chat up to its first _call_with_retry, called at monotonic time t0.
chat(o, t0) ==
    /\ ch_pc = "idle"
    /\ UNCHANGED chFrame
    /\ clock' = t0
    /\ start' = t0
    /\ opts' = o
    /\ kwargs' = ChatMessages(o)
    /\ stage' = "initial"
    /\ attempt' = 0
    /\ ch_pc' = "check"
    /\ calls' = <<CallRecord("initial", ChatMessages(o))>>
    /\ log' = <<>>
    /\ creates' = 0
    /\ UNCHANGED <<backoff, raw, result, error>>

\* `remaining = deadline - (time.monotonic() - start)`
Remaining(deadline, now, st) == deadline.at - (now - st)

\* DeadlineBreak without the `attempt > 0` test.
DeadlineBreakAnyAttempt(deadline, now, st, att) ==
    /\ deadline.given
    /\ deadline.at - (now - st) < 5

\* `if deadline is not None: ... if remaining < 5 and attempt > 0: break`
DeadlineBreak(deadline, now, st, att) ==
    /\ deadline.given
    /\ Remaining(deadline, now, st) < DeadlineMargin
    /\ att > 0

\* The head of one loop iteration: the deadline check, then either the break
\* to the final raise or the create call being issued.
CwrAttempt ==
    /\ ch_pc = "check"
    /\ UNCHANGED chFrame
    /\ IF attempt > max_retries \/ DeadlineBreak(opts.deadline, clock, start, attempt)
       THEN /\ ch_pc' = "raised"
            /\ error' = LLMConnectionError("retries_exhausted")
            /\ UNCHANGED <<log, creates>>
       ELSE /\ ch_pc' = "inflight"
            /\ log' = IF attempt = 0 THEN <<>> ELSE log
            /\ creates' = creates + 1
            /\ UNCHANGED error
    /\ UNCHANGED <<stage, opts, clock, start, attempt, backoff, kwargs, raw, result, calls>>

\* The create call returns a response after lat seconds: _call_with_retry
\* returns its content, and chat runs on to its return, its raise or the next
\* _call_with_retry.
CwrSuccess(content, lat) ==
    /\ ch_pc = "inflight"
    /\ UNCHANGED chFrame
    /\ clock' = clock + lat
    /\ log' = Append(log, RespEntry("ok", 200, content))
    /\ LET ret == ContentOrEmpty(content)
           d == AfterCall(stage, opts, kwargs, ret)
           finished == [calls EXCEPT ![Len(calls)].returned = TRUE,
                                     ![Len(calls)].ret = ret]
       IN  /\ raw' = IF d.kind = "raise" THEN raw ELSE d.raw
           /\ CASE d.kind = "return" ->
                    /\ ch_pc' = "returned"
                    /\ result' = ChatResult(d.raw)
                    /\ calls' = finished
                    /\ UNCHANGED <<stage, attempt, error>>
                [] d.kind = "raise" ->
                    /\ ch_pc' = "raised"
                    /\ error' = d.err
                    /\ calls' = finished
                    /\ UNCHANGED <<stage, attempt, result>>
                [] d.kind = "call" ->
                    /\ ch_pc' = "check"
                    /\ stage' = d.stage
                    /\ attempt' = 0
                    /\ calls' = Append(finished, CallRecord(d.stage, d.messages))
                    /\ UNCHANGED <<result, error>>
    /\ UNCHANGED <<opts, start, backoff, kwargs, creates>>

\* Backoff with the exponent one too high.
BackoffExponentOff(att, jitter) == Min(2^(att + 1) + jitter, 3)

\* `backoff = min(2**attempt + random.uniform(0, 1), 3)`
Backoff(att, jitter) == Min(2^att + jitter, BackoffCap)

\* RetryStatus without the status test: every status is retried.
RetryStatusAny(status, att) == att < 2

\* `status in (429, 503) and attempt < max_retries`
RetryStatus(status, att) == status \in {429, 503} /\ att < max_retries

\* The error an APIStatusError that is not retried is turned into.
StatusError(status, att) ==
    CASE status = 401 -> LLMAuthError
      [] status = 404 -> LLMModelNotFoundError
      [] status \in {429, 503} -> LLMRateLimitError(att)
      [] OTHER -> LLMConnectionError("api_error")

\* The create call raises APIStatusError after lat seconds.
CwrStatusError(status, lat, jitter) ==
    /\ ch_pc = "inflight"
    /\ UNCHANGED chFrame
    /\ clock' = clock + lat
    /\ IF status \notin {401, 404} /\ RetryStatus(status, attempt)
       THEN /\ backoff' = Backoff(attempt, jitter)
            /\ log' = log \o <<RespEntry("status", status, NoContent), SleepEntry(Backoff(attempt, jitter))>>
            /\ ch_pc' = "sleeping"
            /\ UNCHANGED error
       ELSE /\ error' = StatusError(status, attempt)
            /\ log' = Append(log, RespEntry("status", status, NoContent))
            /\ ch_pc' = "raised"
            /\ UNCHANGED backoff
    /\ UNCHANGED <<stage, opts, start, attempt, kwargs, raw, result, calls, creates>>

\* `if attempt < 1` of the transport-failure handler.
RetryTransport(att) == att < 1

\* CwrTransportError that reports a transport failure of a repair call as
\* unparseable output.
CwrTransportErrorAsParse(lat) ==
    /\ ch_pc = "inflight"
    /\ UNCHANGED chFrame
    /\ clock' = clock + lat
    /\ IF RetryTransport(attempt)
       THEN /\ backoff' = TransportBackoff
            /\ log' = log \o <<RespEntry("transport", 0, NoContent), SleepEntry(TransportBackoff)>>
            /\ ch_pc' = "sleeping"
            /\ UNCHANGED error
       ELSE /\ error' = IF stage = "initial" THEN LLMConnectionError("connect_failed")
                        ELSE LLMOutputParseError("json_invalid", RawOutput(raw))
            /\ log' = Append(log, RespEntry("transport", 0, NoContent))
            /\ ch_pc' = "raised"
            /\ UNCHANGED backoff
    /\ UNCHANGED <<stage, opts, start, attempt, kwargs, raw, result, calls, creates>>

\* The create call raises APIConnectionError or APITimeoutError after lat seconds.
CwrTransportError(lat) ==
    /\ ch_pc = "inflight"
    /\ UNCHANGED chFrame
    /\ clock' = clock + lat
    /\ IF RetryTransport(attempt)
       THEN /\ backoff' = TransportBackoff
            /\ log' = log \o <<RespEntry("transport", 0, NoContent), SleepEntry(TransportBackoff)>>
            /\ ch_pc' = "sleeping"
            /\ UNCHANGED error
       ELSE /\ error' = LLMConnectionError("connect_failed")
            /\ log' = Append(log, RespEntry("transport", 0, NoContent))
            /\ ch_pc' = "raised"
            /\ UNCHANGED backoff
    /\ UNCHANGED <<stage, opts, start, attempt, kwargs, raw, result, calls, creates>>

\* asyncio.sleep(backoff) ends; `continue` starts the next iteration.
CwrWake ==
    /\ ch_pc = "sleeping"
    /\ UNCHANGED chFrame
    /\ clock' = clock + backoff
    /\ attempt' = attempt + 1
    /\ ch_pc' = "check"
    /\ UNCHANGED <<stage, opts, start, backoff, kwargs, raw, result, error, log, calls, creates>>

ChatNext ==
    \/ \E f \in ChatFormats, t \in CallTimes : chat(ChatOptions(f, t.deadline), t.t0)
    \/ CwrAttempt
    \/ \E c \in Contents, lat \in Latencies : CwrSuccess(c, lat)
    \/ \E s \in Statuses, lat \in Latencies, j \in Jitters : CwrStatusError(s, lat, j)
    \/ \E lat \in Latencies : CwrTransportError(lat)
    \/ CwrWake

(***************************************************************************)
(* _client_cache, _cache_key, _get_or_create_openai_client                 *)
(***************************************************************************)
MaxClock == 1200

MaxLookups == 4

CLIENT_TTL == 600

\* How far the monotonic clock moves between two calls, in seconds.
Ticks == {300, 599}

\* hashlib.sha256(api_key.encode()).hexdigest()[:16] of the keys in use.
KeyHash(api_key) ==
    CASE api_key = "sk-A" -> "753fc23ae3c84bc2"
      [] api_key = "sk-B" -> "f26a1f561238340c"
      [] api_key = "ollama" -> "76e3c7bfe641ea12"
      [] api_key = "" -> "e3b0c44298fc1c14"

\* The (provider, base_url, api_key) triples get_llm_client passes.
ClientArgs ==
    {[provider |-> "deepseek", base_url |-> "https://api.deepseek.com/v1", api_key |-> "sk-A"],
     [provider |-> "deepseek", base_url |-> "https://api.deepseek.com/v1", api_key |-> "sk-B"],
     [provider |-> "ollama", base_url |-> "http://localhost:11434/v1", api_key |-> "ollama"]}

\* A fingerprint that leaves the credential out.
cache_key_no_hash(provider, base_url, api_key) ==
    [provider |-> provider, base_url |-> base_url, key_hash |-> KeyHash("")]

\* f"{provider}|{base_url}|{key_hash}"
cache_key(provider, base_url, api_key) ==
    [provider |-> provider, base_url |-> base_url, key_hash |-> KeyHash(api_key)]

\* AsyncOpenAI(base_url=base_url, api_key=api_key); serial tells the
\* constructed objects apart.
AsyncOpenAI(base_url, api_key, serial) ==
    [base_url |-> base_url, api_key |-> api_key, serial |-> serial]

NoClient == AsyncOpenAI("", "", 0)

\* What one caller of _get_or_create_openai_client passed and received.
Lookup(provider, base_url, api_key, now, ret) ==
    [provider |-> provider, base_url |-> base_url, api_key |-> api_key,
     key |-> cache_key(provider, base_url, api_key), now |-> now, ret |-> ret]

NoLookup == Lookup("", "", "", 0, NoClient)

CacheInit ==
    /\ client_cache = {}
    /\ cc_clock = 0
    /\ constructed = <<>>
    /\ lookups = 0
    /\ cc_op = NoLookup

\* Fresh that still accepts an entry of age exactly _CLIENT_TTL.
FreshInclusive(now, created_at) == now - created_at <= 600

\* `now - created_at < _CLIENT_TTL`
Fresh(now, created_at) == now - created_at < CLIENT_TTL

\* The body of _get_or_create_openai_client: it has no await, so it runs as
\* one step.
GetOrCreate(provider, base_url, api_key) ==
    /\ lookups' = lookups + 1
    /\ LET key == cache_key(provider, base_url, api_key)
           now == cc_clock
           cached == {e \in client_cache : e.key = key}
       IN  IF \E e \in cached : Fresh(now, e.created_at)
           THEN /\ cc_op' = Lookup(provider, base_url, api_key, now,
                                   (CHOOSE e \in cached : TRUE).client)
                /\ UNCHANGED <<client_cache, constructed>>
           ELSE LET client == AsyncOpenAI(base_url, api_key, Len(constructed) + 1)
                IN  /\ constructed' = Append(constructed, [client |-> client, at |-> now])
                    /\ client_cache' = (client_cache \ cached)
                                          \cup {[key |-> key, client |-> client,
                                                 created_at |-> now]}
                    /\ cc_op' = Lookup(provider, base_url, api_key, now, client)
    /\ UNCHANGED cc_clock

get_or_create_openai_client(provider, base_url, api_key) ==
    /\ UNCHANGED ccFrame
    /\ lookups < MaxLookups
    /\ GetOrCreate(provider, base_url, api_key)

\* Time passes between two calls.
Tick(d) ==
    /\ UNCHANGED ccFrame
    /\ cc_clock + d <= MaxClock
    /\ cc_clock' = cc_clock + d
    /\ UNCHANGED <<client_cache, constructed, lookups, cc_op>>

CacheNext ==
    \/ \E a \in ClientArgs : get_or_create_openai_client(a.provider, a.base_url, a.api_key)
    \/ \E d \in Ticks : Tick(d)

(***************************************************************************)
(* get_llm_client, LLMClient and the adapter's snapshot of its arguments   *)
(***************************************************************************)
MaxClients == 2

\* DynamicConfig.llm_provider is Literal["deepseek", "ollama"].
Providers == {"deepseek", "ollama"}

LlmModels == {"deepseek-chat", "qwen2"}

\* DynamicConfig(): the schema defaults.
DefaultConfig == [llm_provider |-> "deepseek", llm_model |-> "deepseek-chat"]

\* get_settings(): the static settings, cached for the life of the process.
Settings == [deepseek_api_key |-> "sk-A", ollama_base_url |-> "http://localhost:11434"]

\* f"{settings.ollama_base_url}/v1"
OllamaV1(url) == CASE url = "http://localhost:11434" -> "http://localhost:11434/v1"

\* DynamicConfigPatch: each field is None or a value.
Patches == [llm_provider : Providers \cup {None}, llm_model : LlmModels \cup {None}]

\* _OpenAICompatibleAdapter.__init__
Adapter(client, model, provider) == [client |-> client, model |-> model, provider |-> provider]

\* LLMClient.__init__
LLMClient(chat_adapter) == [chat_adapter |-> chat_adapter]

NoCreate == [via |-> 0, at |-> 0, client |-> NoClient, model |-> "", provider |-> ""]

ClientInit ==
    /\ dynamic_config = DefaultConfig
    /\ config_reads = 0
    /\ llm_clients = <<>>
    /\ cl_last = NoCreate

\* DynamicConfigService.update, at the step that replaces the cached object:
\* current.update(updates) with the fields of the patch that are not None.
update(patch) ==
    /\ UNCHANGED clFrame
    /\ UNCHANGED ccVars
    /\ dynamic_config' =
          [llm_provider |-> IF patch.llm_provider = None THEN dynamic_config.llm_provider
                            ELSE patch.llm_provider,
           llm_model |-> IF patch.llm_model = None THEN dynamic_config.llm_model
                         ELSE patch.llm_model]
    /\ UNCHANGED <<config_reads, llm_clients, cl_last>>

get_llm_client ==
    /\ UNCHANGED clFrame
    /\ Len(llm_clients) < MaxClients
    /\ LET cfg == dynamic_config
           settings == Settings
           provider == cfg.llm_provider
           model == cfg.llm_model
           base_url == IF provider = "deepseek" THEN "https://api.deepseek.com/v1"
                       ELSE OllamaV1(settings.ollama_base_url)
           api_key == IF provider = "deepseek" THEN settings.deepseek_api_key ELSE "ollama"
       IN  /\ config_reads' = config_reads + 1
           /\ GetOrCreate(provider, base_url, api_key)
           /\ llm_clients' = Append(llm_clients,
                                    LLMClient(Adapter(cc_op'.ret, model, provider)))
    /\ UNCHANGED <<dynamic_config, cl_last>>

\* The model a request is sent with if the adapter read it from the current
\* configuration.
RequestModelLive(adapter, cfg) == cfg.llm_model

\* "model": self._model
RequestModel(adapter, cfg) == adapter.model

\* One self._client.chat.completions.create(**kwargs) of a chat or chat_stream
\* call made through the n-th LLMClient: an attempt, a retry or a repair call.
ClientCreate(n) ==
    /\ UNCHANGED clFrame
    /\ UNCHANGED ccVars
    /\ n \in DOMAIN llm_clients
    /\ LET adapter == llm_clients[n].chat_adapter
       IN  cl_last' = [via |-> n, at |-> cc_clock, client |-> adapter.client,
                       model |-> RequestModel(adapter, dynamic_config),
                       provider |-> adapter.provider]
    /\ UNCHANGED <<dynamic_config, config_reads, llm_clients>>

ClientNext ==
    \/ get_llm_client
    \/ \E patch \in Patches : update(patch)
    \/ \E n \in 1..MaxClients : ClientCreate(n)
    \/ \E d \in Ticks : Tick(d)

(***************************************************************************)
(* Specifications                                                          *)
(***************************************************************************)
Init == ManagerInit /\ UpsertInit /\ StreamInit /\ ChatInit /\ CacheInit /\ ClientInit

SpecUpsert == Init /\ [][UpsertNext]_vars

SpecStream == Init /\ [][StreamNext]_vars

SpecStreamClose == Init /\ [][StreamCloseNext]_vars

SpecChat == Init /\ [][ChatNext]_vars

\* upsert_chunks is synchronous code: once called it runs, step after step,
\* until it returns or raises.
SpecUpsertFair ==
    /\ SpecUpsert
    /\ WF_vars(UpsertForBatch)
    /\ WF_vars(\E ok \in BOOLEAN : UpsertBatch(ok))

\* The create call in flight ends: with a response, an APIStatusError, or an
\* APIConnectionError / APITimeoutError.
CwrResponse ==
    \/ \E c \in Contents, lat \in Latencies : CwrSuccess(c, lat)
    \/ \E s \in Statuses, lat \in Latencies, j \in Jitters : CwrStatusError(s, lat, j)
    \/ \E lat \in Latencies : CwrTransportError(lat)

\* Once chat is called its coroutine is scheduled whenever it can run: every
\* create call ends (the client times out a request that gets no answer) and
\* every asyncio.sleep ends.
SpecChatFair ==
    /\ SpecChat
    /\ WF_vars(CwrAttempt)
    /\ WF_vars(CwrResponse)
    /\ WF_vars(CwrWake)

SpecManager == Init /\ [][ManagerNext]_vars

SpecRouting == Init /\ [][RoutingNext]_vars

SpecCache == Init /\ [][CacheNext]_vars

SpecClient == Init /\ [][ClientNext]_vars

(***************************************************************************)
(* Properties of upsert_chunks                                             *)
(***************************************************************************)
\* C1: for a non-empty input with pairwise distinct ids and batch_size >= 1,
\* whatever writes fail, the returned success_ids and failed_ids together hold
\* every input id exactly once: their union is the input id set, they share no
\* id, and no id is repeated.
C1_UpsertPartition ==
    (/\ up_pc = "returned"
     /\ chunks # <<>>
     /\ IsInjective(chunks)
     /\ batch_size >= 1)
    => /\ Range(success_ids) \cup Range(failed_ids) = Range(chunks)
       /\ Range(success_ids) \cap Range(failed_ids) = {}
       /\ IsInjective(success_ids \o failed_ids)

\* A call on three distinct chunks in one batch that returned after the batch
\* write failed and was split, with ids on both sides of the outcome.
C1_Witness ==
    /\ up_pc = "returned"
    /\ Len(chunks) = 3
    /\ IsInjective(chunks)
    /\ batch_size = 3
    /\ Len(writes) >= 4
    /\ success_ids # <<>>
    /\ failed_ids # <<>>

(***************************************************************************)
(* Properties of chat_stream                                               *)
(***************************************************************************)
\* The finish reason of the last delivered chunk that carries one, "error" if
\* no chunk does.
LastFinishOf(rcv) ==
    LET with == {k \in DOMAIN rcv : rcv[k].choices /\ rcv[k].finish \notin {None, ""}}
    IN  IF with = {} THEN "error"
        ELSE rcv[CHOOSE k \in with : \A m \in with : m <= k].finish

DoneCount == Cardinality({k \in DOMAIN events : events[k].type = "done"})

\* C2: a fully consumed chat_stream yields exactly one done event, as its last
\* event, whatever chunks arrive and wherever the request or the iteration
\* fails; nothing follows done; and done carries the last finish reason a chunk
\* carried, or "error" when none did.
C2_StreamEndsWithOneDone ==
    /\ \A k \in DOMAIN events : events[k].type = "done" => k = Len(events)
    /\ st_pc = "closed"
         => /\ DoneCount = 1
            /\ events[Len(events)].type = "done"
            /\ events[Len(events)].finish_reason = LastFinishOf(received)

\* A fully consumed stream that failed after a delta and after a chunk that
\* carried a finish reason, followed by a later one.
C2_Witness ==
    /\ st_pc = "closed"
    /\ \E k \in DOMAIN events : events[k].type = "delta"
    /\ \E k \in DOMAIN events : events[k].type = "error"
    /\ Len(received) = 3
    /\ received[2].finish = "stop"
    /\ received[3].finish = "length"

(***************************************************************************)
(* Properties of _call_with_retry                                          *)
(***************************************************************************)
\* The positions of log that are responses to a network attempt.
RespIdx == {k \in DOMAIN log : log[k].ev = "resp"}

\* The network attempts of the logged _call_with_retry: answered or in flight.
NetAttempts == Cardinality(RespIdx) + (IF ch_pc = "inflight" THEN 1 ELSE 0)

\* The invocation log belongs to: between the return of one _call_with_retry
\* and the first attempt of the next, log is still the returned one's.
LoggedCall ==
    IF ch_pc = "check" /\ attempt = 0 THEN calls[Len(calls) - 1] ELSE calls[Len(calls)]

\* The budget the deadline leaves: the deadline minus the time since chat started.
Budget == opts.deadline.at - (clock - start)

\* C3: one _call_with_retry makes at most 3 network attempts, whatever the
\* endpoint answers and whatever the deadline; a successful response is the last
\* thing that happens in it (no attempt, no sleep after it), and its content
\* (the empty string for a response without content) is what the call returns.
C3_AtMostThreeAttempts ==
    /\ NetAttempts <= 3
    /\ \A k \in RespIdx : log[k].what = "ok" =>
          /\ k = Len(log)
          /\ ch_pc \in {"returned", "raised", "check"}
          /\ ch_pc = "check" => attempt = 0
          /\ LoggedCall.returned
          /\ LoggedCall.ret = IF log[k].content = NoContent THEN EmptyStr
                              ELSE log[k].content

\* A call under a deadline that succeeded at its third attempt, after a 429
\* and a 503.
C3_Witness ==
    /\ ch_pc = "returned"
    /\ opts.deadline.given
    /\ Len(log) = 5
    /\ log[1].status = 429
    /\ log[3].status = 503
    /\ log[5].what = "ok"
    /\ result.content = log[5].content

\* C4: a response with status 401, 404 or any status other than 429 and 503
\* is never retried, at whichever attempt it arrives: it is the last entry of
\* the call's history (no attempt and no sleep follow), and the call has raised
\* LLMAuthError{provider, model}, LLMModelNotFoundError{provider, model} or
\* LLMConnectionError{provider, base_url} respectively.
C4_NonRetryableNeverRetried ==
    \A k \in RespIdx :
        (log[k].what = "status" /\ log[k].status \notin {429, 503}) =>
            /\ k = Len(log)
            /\ ch_pc = "raised"
            /\ result = NoResult
            /\ error.provider = AdapterProvider
            /\ CASE log[k].status = 401 ->
                       error.kind = "LLMAuthError" /\ error.model = AdapterModel
                 [] log[k].status = 404 ->
                       error.kind = "LLMModelNotFoundError" /\ error.model = AdapterModel
                 [] OTHER ->
                       error.kind = "LLMConnectionError" /\ error.base_url = AdapterBaseUrl

\* A 404 that arrived at the third attempt of a repair call, and was not retried.
C4_Witness ==
    /\ ch_pc = "raised"
    /\ stage = "repair_json"
    /\ Len(log) = 5
    /\ log[5].status = 404
    /\ error.kind = "LLMModelNotFoundError"

\* C5: with no deadline, a call whose every attempt is answered 429 or 503
\* makes exactly 3 attempts, sleeps min(2^attempt + jitter, 3) seconds (between
\* 1 and 3) after the first and after the second and not after the third, and
\* raises LLMRateLimitError with retry_count = 2.
C5_RateLimitExhausted ==
    (/\ ch_pc = "raised"
     /\ ~opts.deadline.given
     /\ \A k \in RespIdx : log[k].what = "status" /\ log[k].status \in {429, 503})
    => /\ Len(log) = 5
       /\ RespIdx = {1, 3, 5}
       /\ \A k \in {2, 4} :
             /\ log[k].ev = "sleep"
             /\ \E j \in {0, 1} : log[k].secs = Min(2^((k \div 2) - 1) + j, 3)
             /\ 1 <= log[k].secs /\ log[k].secs <= 3
       /\ error.kind = "LLMRateLimitError"
       /\ error.provider = AdapterProvider
       /\ error.retry_count = 2

\* A call without deadline answered 429, 503, 429 that raised LLMRateLimitError.
C5_Witness ==
    /\ ch_pc = "raised"
    /\ ~opts.deadline.given
    /\ Len(log) = 5
    /\ log[1].status = 429
    /\ log[3].status = 503
    /\ log[5].status = 429
    /\ log[2].secs = 1
    /\ log[4].secs = 3
    /\ error.kind = "LLMRateLimitError"

\* The positions of log that are transport-level failures.
TransportIdx == {k \in RespIdx : log[k].what = "transport"}

\* C6: in every call (here: with no deadline set), the first transport-level
\* failure is followed by one more network attempt, also when it happens on a
\* retry that followed a 429/503; only a second transport failure raises.
C6_FirstTransportFailureRetried ==
    (/\ ch_pc = "raised"
     /\ ~opts.deadline.given
     /\ TransportIdx # {})
    => \E f \in TransportIdx :
          /\ \A k \in TransportIdx : f <= k
          /\ \E m \in RespIdx : m > f

C8_DeadlineIsAbsolute ==
    (/\ ch_pc = "inflight"
     /\ attempt >= 1
     /\ opts.deadline.given)
    => opts.deadline.at - clock >= 5

(***************************************************************************)
(* Properties of chat with response_format = json                          *)
(***************************************************************************)
\* Whether a text is valid JSON that the schema check of the call accepts.
ValidForSchema(t) ==
    LET p == JsonLoads(t)
        expected == IF opts.json_schema.required # <<>>
                    THEN Range(opts.json_schema.required)
                    ELSE opts.json_schema.properties
    IN  /\ p.ok
        /\ (opts.json_schema.truthy /\ p.obj) => expected \subseteq p.keys

\* The request messages of the call: the caller's, after the schema hint if a
\* schema is given with response_format = json.
RequestMessages ==
    IF opts.response_format = "json" /\ opts.json_schema.truthy
    THEN <<Msg("system", Str(opts.json_schema.name, 30))>> \o UserMessages
    ELSE UserMessages

\* C9: when the first response of a json call is not valid JSON and the
\* response to the repair call is valid JSON (and has the schema's fields, if
\* a schema is given), chat has issued exactly one repair call, with the
\* request messages, the first output as an assistant message and the
\* corrective instruction, and has returned the repair response's text as it
\* came, with finish_reason "stop".
C9_InvalidJsonRepaired ==
    (/\ Len(calls) >= 2
     /\ calls[2].stage = "repair_json"
     /\ calls[2].returned
     /\ ValidForSchema(calls[2].ret))
    => /\ opts.response_format = "json"
       /\ ~JsonLoads(calls[1].ret).ok
       /\ Len(calls) = 2
       /\ calls[2].messages = RequestMessages \o
                                 <<Msg("assistant", calls[1].ret), NotJsonInstruction>>
       /\ ch_pc = "returned"
       /\ error = NoError
       /\ log[Len(log)].what = "ok"
       /\ result = [content |-> log[Len(log)].content, finish_reason |-> "stop"]

\* A json call with a schema whose first output was not JSON and whose repair
\* response, an object with both fields spelled with extra spaces, was returned.
C9_Witness ==
    /\ ch_pc = "returned"
    /\ opts.json_schema.name = "req_b_a"
    /\ Len(calls) = 2
    /\ calls[1].ret = Text("bad")
    /\ calls[2].stage = "repair_json"
    /\ result.content = Text("obj_ab_s")

\* C10: when the response to the invalid-JSON repair call does not parse,
\* chat raises LLMOutputParseError with reason "json_invalid"; when the
\* response to the missing-fields repair call does not parse, is not an
\* object or lacks an expected field, with reason "schema_mismatch". In both
\* cases raw_output is the first 500 characters of that response, nothing is
\* returned and no further call is made.
C10_RepairFailureRaises ==
    \A n \in DOMAIN calls :
        LET c == calls[n]
            p == JsonLoads(c.ret)
            expected == IF opts.json_schema.required # <<>>
                        THEN Range(opts.json_schema.required)
                        ELSE opts.json_schema.properties
            failed == \/ c.stage = "repair_json" /\ ~p.ok
                      \/ c.stage = "repair_schema"
                            /\ (~p.ok \/ ~p.obj \/ ~(expected \subseteq p.keys))
        IN  (c.returned /\ failed) =>
               /\ n = Len(calls)
               /\ ch_pc = "raised"
               /\ result = NoResult
               /\ error.kind = "LLMOutputParseError"
               /\ error.reason = IF c.stage = "repair_json" THEN "json_invalid"
                                 ELSE "schema_mismatch"
               /\ error.raw_output.id = c.ret.id
               /\ error.raw_output.len = IF c.ret.len <= 500 THEN c.ret.len ELSE 500

\* A missing-fields repair, after an invalid-JSON repair, answered with a text
\* of more than 500 characters that does not parse.
C10_Witness ==
    /\ ch_pc = "raised"
    /\ Len(calls) = 3
    /\ calls[3].stage = "repair_schema"
    /\ calls[3].ret = Text("bad_long")
    /\ error.reason = "schema_mismatch"
    /\ error.raw_output.len = 500

\* The expected field set of the call's schema: the required list, or the
\* property names when there is no required list or it is empty.
ExpectedFields ==
    IF opts.json_schema.required # <<>>
    THEN Range(opts.json_schema.required)
    ELSE opts.json_schema.properties

\* Whether a sequence lists exactly the fields of S, each once, in
\* alphabetical order.
ListsSorted(f, S) ==
    /\ Range(f) = S
    /\ \A k, l \in DOMAIN f : k < l => FieldRank[f[k]] < FieldRank[f[l]]

\* C11: in a json call with a schema whose expected field set is not empty,
\* a response that parses to an object lacking an expected field is followed
\* by exactly one repair call, whose messages are the request messages, that
\* output as an assistant message and an instruction naming the expected
\* fields in sorted order; a repair response that is an object with every
\* expected field is returned as it came; and an object that already has
\* every expected field is followed by no repair call.
C11_MissingFieldsRepaired ==
    (opts.response_format = "json" /\ opts.json_schema.truthy /\ ExpectedFields # {})
    => \A n \in DOMAIN calls :
         LET c == calls[n]
             p == JsonLoads(c.ret)
             complete == p.ok /\ p.obj /\ ExpectedFields \subseteq p.keys
             lacking == p.ok /\ p.obj /\ ~(ExpectedFields \subseteq p.keys)
         IN  /\ (c.returned /\ c.stage # "repair_schema" /\ lacking) =>
                   /\ Len(calls) = n + 1
                   /\ calls[n + 1].stage = "repair_schema"
                   /\ Len(calls[n + 1].messages) = Len(RequestMessages) + 2
                   /\ SubSeq(calls[n + 1].messages, 1, Len(RequestMessages)) = RequestMessages
                   /\ calls[n + 1].messages[Len(RequestMessages) + 1] = Msg("assistant", c.ret)
                   /\ LET m == calls[n + 1].messages[Len(RequestMessages) + 2]
                      IN  /\ m.role = "user"
                          /\ m.content.id = "missing_fields"
                          /\ ListsSorted(m.content.fields, ExpectedFields)
             /\ (c.returned /\ complete) =>
                   /\ n = Len(calls)
                   /\ ch_pc = "returned"
                   /\ error = NoError
                   /\ log[Len(log)].what = "ok"
                   /\ result = [content |-> log[Len(log)].content, finish_reason |-> "stop"]

\* A json call with required = ["b", "a"] whose first output had only field a
\* and whose repair response, an object with both fields, was returned.
C11_Witness ==
    /\ ch_pc = "returned"
    /\ opts.json_schema.name = "req_b_a"
    /\ Len(calls) = 2
    /\ calls[1].ret = Text("obj_a")
    /\ calls[2].stage = "repair_schema"
    /\ calls[2].messages[4].content.fields = <<"a", "b">>
    /\ result.content = Text("obj_ab_s")

(***************************************************************************)
(* Properties of chat_stream under failure                                 *)
(***************************************************************************)
\* The positions of the error events yielded so far.
ErrorIdx == {n \in DOMAIN events : events[n].type = "error"}

\* C12: chat_stream yields at most one error event, and the event that
\* follows an error event is the done event with finish_reason "error",
\* wherever the failure happens, also after a chunk that carried a finish
\* reason.
C12_ErrorThenDoneError ==
    /\ Cardinality(ErrorIdx) <= 1
    /\ \A n \in ErrorIdx :
          n < Len(events) =>
             /\ n + 1 = Len(events)
             /\ events[n + 1].type = "done"
             /\ events[n + 1].finish_reason = "error"

\* The delta events of the chunks received so far, in order.
DeltasSoFar ==
    LET text == SelectSeq(received, LAMBDA c : c.choices /\ c.content \notin {None, ""})
    IN  [n \in DOMAIN text |-> DeltaEvent(text[n].content)]

\* C13: chat_stream raises nothing to its consumer: when the create call or
\* the iteration fails, the consumer has seen the deltas of the chunks
\* received so far, then one error event, then (once it asks again) done,
\* and nothing else; and chat_stream issues exactly one create call, with no
\* retry after a failure.
C13_NoRaiseOneRequest ==
    /\ raised = None
    /\ pending = None
    /\ requests = IF st_pc = "idle" THEN 0 ELSE 1
    /\ \A n \in ErrorIdx :
          /\ events[n].error_message \in StreamErrors
          /\ SubSeq(events, 1, n - 1) = DeltasSoFar
          /\ Len(events) <= n + 1
          /\ st_pc \in {"at_error", "at_done", "closed"}
          /\ (st_pc # "at_error") =>
                Len(events) = n + 1 /\ events[n + 1].type = "done"

\* A stream that delivered one chunk of text and then failed with a reset,
\* consumed to its end.
C13_Witness ==
    /\ st_pc = "closed"
    /\ requests = 1
    /\ Len(received) = 1
    /\ Len(events) = 3
    /\ events[1] = DeltaEvent("hi")
    /\ events[2] = ErrorEvent("reset")
    /\ events[3].type = "done"

(***************************************************************************)
(* Properties of upsert_chunks under particular backing-store behaviour    *)
(***************************************************************************)
\* Whether the backing store has so far rejected exactly the writes whose id
\* list contains x.
RejectsOnly(x) == \A n \in DOMAIN writes : writes[n].ok <=> x \notin Range(writes[n].ids)

\* C14: for an input with pairwise distinct ids and batch_size >= 1, if the
\* backing store rejected exactly the writes whose id list contains one input
\* id X and accepted every other write, the call returns failed_ids = [X] and
\* success_ids = the other input ids, in input order.
C14_OneBadChunkIsolated ==
    \A x \in Range(chunks) :
        (/\ up_pc = "returned"
         /\ IsInjective(chunks)
         /\ batch_size >= 1
         /\ RejectsOnly(x))
        => /\ failed_ids = <<x>>
           /\ success_ids = SelectSeq(chunks, LAMBDA c : c # x)

\* Three distinct chunks written as one batch, the middle one being the one
\* the store rejects: five writes, two of them accepted.
C14_Witness ==
    /\ up_pc = "returned"
    /\ chunks = <<"c1", "c2", "c3">>
    /\ batch_size = 3
    /\ RejectsOnly("c2")
    /\ Len(writes) = 5
    /\ failed_ids = <<"c2">>
    /\ success_ids = <<"c1", "c3">>

\* C15: a call with batch_size b >= 1 on n chunks that returned without any
\* write having failed has issued exactly ceil(n/b) writes, the k-th being
\* chunks (k-1)*b+1 .. min(k*b, n) of the input, and returns success_ids =
\* the input ids in input order with failed_ids empty; a call on no chunks
\* returns the empty outcome having issued no backing-store call: no write
\* and no get-or-create, so no collection exists or is cached because of it.
C15_BatchesWhenNoFailure ==
    (/\ up_pc = "returned"
     /\ batch_size >= 1
     /\ \A n \in DOMAIN writes : writes[n].ok)
    => /\ Len(writes) = (Len(chunks) + batch_size - 1) \div batch_size
       /\ \A n \in DOMAIN writes :
             writes[n].ids = [k \in 1..(Min(n * batch_size, Len(chunks)) - (n - 1) * batch_size)
                                 |-> chunks[(n - 1) * batch_size + k]]
       /\ success_ids = chunks
       /\ failed_ids = <<>>
       /\ chunks = <<>> =>
             /\ writes = <<>>
             /\ store_calls = <<>>
             /\ collections = {}
             /\ collection_cache = {}

\* Three chunks written in batches of two: two accepted writes, of two chunks
\* and of one.
C15_Witness ==
    /\ up_pc = "returned"
    /\ Len(chunks) = 3
    /\ batch_size = 2
    /\ Len(writes) = 2
    /\ writes[1].ok /\ writes[2].ok
    /\ Len(writes[2].ids) = 1
    /\ success_ids = chunks

(***************************************************************************)
(* Properties of query                                                     *)
(***************************************************************************)
\* The filter of the collection.query call of the latest query operation.
SentFilter == store_calls[Len(store_calls)].where

\* The doc_id entries of that filter.
SentDocEntries == {e \in SentFilter.items : e.key = "doc_id"}

\* The doc_id entry the doc_id / doc_ids arguments of the latest query ask
\* for: {"$in": doc_ids} when doc_ids is given, else doc_id when it is given.
AskedDocEntries ==
    IF mg_op.doc_ids.given
    THEN {[key |-> "doc_id", val |-> [op |-> "in", nums |-> mg_op.doc_ids.ids, text |-> ""]]}
    ELSE IF mg_op.doc_id.given
    THEN {[key |-> "doc_id", val |-> [op |-> "eq", nums |-> <<mg_op.doc_id.v>>, text |-> ""]]}
    ELSE {}

\* C16: a query given doc_ids (any list, the empty one included) sends
\* {"$in": doc_ids} as the doc_id entry of its filter, whatever doc_id is; the
\* filter's doc_id entry is the single doc_id only when doc_ids is None and
\* doc_id is given.
C16_DocIdsTakePriority ==
    (mg_op.op = "query")
    => /\ store_calls[Len(store_calls)].op = "query"
       /\ mg_op.doc_ids.given =>
             /\ SentFilter.given
             /\ SentDocEntries =
                   {[key |-> "doc_id",
                     val |-> [op |-> "in", nums |-> mg_op.doc_ids.ids, text |-> ""]]}
       /\ (\E e \in SentDocEntries : e.val.op = "eq") =>
             /\ ~mg_op.doc_ids.given
             /\ mg_op.doc_id.given
             /\ SentDocEntries =
                   {[key |-> "doc_id",
                     val |-> [op |-> "eq", nums |-> <<mg_op.doc_id.v>>, text |-> ""]]}
       /\ (~mg_op.doc_ids.given /\ ~mg_op.doc_id.given) => SentDocEntries = {}

\* A query with doc_id = 7 and doc_ids = []: the filter sent is
\* {"doc_id": {"$in": []}}.
C16_Witness ==
    /\ mg_op.op = "query"
    /\ mg_op.doc_id = DocId(7)
    /\ mg_op.doc_ids = DocIds(<<>>)
    /\ ~mg_op.extra_where.given
    /\ SentFilter = Where({Entry("doc_id", InVal(<<>>))})

\* C17: whatever extra_where a query is given, it returns normally and the
\* filter it sends has keys among doc_id, file_type, filename and section
\* only: the file_type, filename and section entries of extra_where as they
\* are, no other entry of extra_where, and as doc_id entry what the doc_id /
\* doc_ids arguments ask for, never what extra_where holds under doc_id; when
\* that leaves no entry, the query is sent with no filter (None), not with an
\* empty one.
C17_ExtraWhereWhitelisted ==
    (mg_op.op = "query")
    => LET allowed == {e \in mg_op.extra_where.items :
                          e.key \in {"file_type", "filename", "section"}}
       IN  /\ mg_op.outcome = "returned"
           /\ \A e \in SentFilter.items :
                 e.key \in {"doc_id", "file_type", "filename", "section"}
           /\ SentDocEntries = AskedDocEntries
           /\ SentFilter.items \ SentDocEntries = allowed
           /\ SentFilter.given <=> (AskedDocEntries \cup allowed # {})

\* A query with doc_id = 7 whose extra_where holds doc_id, section and
\* filename: the filter keeps doc_id = 7 and takes section and filename.
C17_Witness ==
    /\ mg_op.op = "query"
    /\ mg_op.doc_id = DocId(7)
    /\ ~mg_op.doc_ids.given
    /\ Entry("doc_id", InVal(<<99>>)) \in mg_op.extra_where.items
    /\ SentFilter = Where({Entry("doc_id", NumVal(7)), Entry("section", TextVal("intro")),
                           Entry("filename", TextVal("a.docx"))})

(***************************************************************************)
(* Properties of delete_by_doc_id                                          *)
(***************************************************************************)
\* Whether a collection name starts with "doc_chunks__".
HasModelPrefix(name) ==
    /\ Len(name) >= 12
    /\ SubSeq(name, 1, 12) = <<"d", "o", "c", "_", "c", "h", "u", "n", "k", "s", "_", "_">>

\* The positions of the delete calls among calls.
DeleteIdxOf(cs) == {n \in DOMAIN cs : cs[n].op = "delete"}

DeleteIdx == DeleteIdxOf(store_calls)

\* C18: a delete_by_doc_id(d, across_all_models = True) call returns having
\* issued, for every collection the store holds whose name starts with
\* "doc_chunks__", created by this manager or not, exactly one delete with
\* filter {"doc_id": d}, and no delete on any other collection, whatever
\* embed_model it is given. (A step that leaves the latest operation and its
\* store calls alone but changes the store is another client's.)
C18_DeleteAcrossAllModels ==
    [][(/\ mg_op'.op = "delete_by_doc_id"
        /\ mg_op'.across_all_models
        /\ (mg_op' # mg_op \/ store_calls' # store_calls \/ collections' = collections))
       => /\ mg_op'.outcome = "returned"
          /\ \A name \in collections :
                HasModelPrefix(name) =>
                   Cardinality({n \in DeleteIdxOf(store_calls') :
                                   store_calls'[n].name = name}) = 1
          /\ \A n \in DeleteIdxOf(store_calls') :
                /\ store_calls'[n].name \in collections
                /\ HasModelPrefix(store_calls'[n].name)
                /\ store_calls'[n].where =
                      [given |-> TRUE,
                       items |-> {[key |-> "doc_id",
                                   val |-> [op |-> "eq", nums |-> <<mg_op'.doc_id.v>>,
                                            text |-> ""]]}]]_vars

\* A delete across all models, called with an embed_model, on a store that
\* holds a collection of this manager, "doc_chunks__old" created by another
\* client and "doc_chunks_x": two deletes.
C18_Witness ==
    /\ mg_op.op = "delete_by_doc_id"
    /\ mg_op.across_all_models
    /\ mg_op.embed_model.given
    /\ ForeignNames \subseteq collections
    /\ Cardinality(collection_cache) = 1
    /\ Cardinality(collections) = 3
    /\ Cardinality(DeleteIdx) = 2

\* C19: a delete_by_doc_id call with across_all_models = False and no
\* embed_model raises ValueError without having called the backing store, and
\* leaves the store's collections and the collection cache as they were.
C19_DeleteWithoutModelRaises ==
    [][(/\ mg_op' # mg_op
        /\ mg_op'.op = "delete_by_doc_id"
        /\ ~mg_op'.across_all_models
        /\ ~mg_op'.embed_model.given)
       => /\ mg_op'.outcome = "ValueError"
          /\ store_calls' = <<>>
          /\ collections' = collections
          /\ collection_cache' = collection_cache]_vars

\* The call made on a manager that has cached a collection, on a store that
\* also holds a foreign model collection: it raised and issued nothing.
C19_Witness ==
    /\ mg_op.op = "delete_by_doc_id"
    /\ ~mg_op.across_all_models
    /\ ~mg_op.embed_model.given
    /\ mg_op.outcome = "ValueError"
    /\ store_calls = <<>>
    /\ collection_cache # {}
    /\ \E name \in collections : HasModelPrefix(name) /\ name \in ForeignNames

(***************************************************************************)
(* Properties of the client cache                                          *)
(***************************************************************************)
\* C20: a lookup of a fingerprint at monotonic time t returns the cached
\* handle, constructing nothing and leaving the cache as it is (created_at
\* included), if and only if the cache holds an entry for the fingerprint with
\* t - created_at < 600; otherwise it constructs exactly one handle, stores it
\* under the fingerprint with created_at = t in place of any stale entry, and
\* returns it. No handle is returned 600 seconds or more after it was
\* constructed.
C20_CacheTtl ==
    [][(lookups' = lookups + 1)
       => LET key == cc_op'.key
              t == cc_clock
              live == {e \in client_cache : e.key = key /\ t - e.created_at < 600}
          IN  /\ cc_op'.now = t
              /\ Cardinality({e \in client_cache' : e.key = key}) = 1
              /\ (live # {}) =>
                    /\ cc_op'.ret \in {e.client : e \in live}
                    /\ constructed' = constructed
                    /\ client_cache' = client_cache
              /\ (live = {}) =>
                    /\ Len(constructed') = Len(constructed) + 1
                    /\ SubSeq(constructed', 1, Len(constructed)) = constructed
                    /\ constructed'[Len(constructed')].client = cc_op'.ret
                    /\ cc_op'.ret \notin {constructed[n].client : n \in DOMAIN constructed}
                    /\ client_cache' = {e \in client_cache : e.key # key}
                                         \cup {[key |-> key, client |-> cc_op'.ret,
                                                created_at |-> t]}
              /\ \A n \in DOMAIN constructed' :
                    constructed'[n].client = cc_op'.ret => t - constructed'[n].at < 600]_vars

\* A fingerprint looked up at 0, at 300 (a hit) and at 600: the third lookup
\* found the entry exactly 600 seconds old and replaced it with a second handle.
C20_Witness ==
    /\ lookups = 3
    /\ cc_clock = 600
    /\ Len(constructed) = 2
    /\ constructed[1].at = 0
    /\ constructed[2].at = 600
    /\ constructed[1].client.api_key = constructed[2].client.api_key
    /\ cc_op.ret = constructed[2].client
    /\ Cardinality(client_cache) = 1

\* C21: the lookup has no suspension point, so concurrent callers interleave
\* only between whole lookups, in every order and with time passing between
\* them. Under every such interleaving each fingerprint maps to at most one
\* entry, every entry is complete and holds a handle constructed for its own
\* fingerprint, and every caller receives a constructed handle that was built
\* with the caller's own base_url and credential, for the caller's fingerprint.
C21_CacheNeverCorrupted ==
    /\ \A e1 \in client_cache : \A e2 \in client_cache : e1.key = e2.key => e1 = e2
    /\ \A e \in client_cache :
          /\ e.client \in {constructed[n].client : n \in DOMAIN constructed}
          /\ e.created_at \in 0..cc_clock
          /\ cache_key(e.key.provider, e.client.base_url, e.client.api_key) = e.key
    /\ (lookups > 0) =>
          /\ cc_op.ret \in {constructed[n].client : n \in DOMAIN constructed}
          /\ cc_op.ret.base_url = cc_op.base_url
          /\ cc_op.ret.api_key = cc_op.api_key
          /\ \E e \in client_cache : e.key = cc_op.key /\ e.client = cc_op.ret

\* Four callers without time passing: two credentials of one provider and
\* base_url interleaved, the last caller being served the handle the first
\* caller of its credential had constructed.
C21_Witness ==
    /\ lookups = 4
    /\ cc_clock = 0
    /\ Len(constructed) = 2
    /\ constructed[1].client.base_url = constructed[2].client.base_url
    /\ constructed[1].client.api_key = "sk-A"
    /\ constructed[2].client.api_key = "sk-B"
    /\ cc_op.api_key = "sk-A"
    /\ cc_op.ret = constructed[1].client
    /\ Cardinality(client_cache) = 2

(***************************************************************************)
(* Properties of collection handles                                        *)
(***************************************************************************)
\* The step is a get_collection call that follows a get_collection call.
GetAfterGet ==
    /\ mg_op.op = "get_collection"
    /\ mg_op'.op = "get_collection"
    /\ ~(collections' # collections /\ collection_cache' = collection_cache)

\* The collection name each model in use resolves to.
ResolvedName == [m \in EmbedModels |-> build_collection_name(m)]

C23_SnapshotAtSelection ==
    [][/\ \A n \in DOMAIN llm_clients :
             n \in DOMAIN llm_clients' /\ llm_clients'[n] = llm_clients[n]
       /\ (Len(llm_clients') # Len(llm_clients)) =>
             /\ Len(llm_clients') = Len(llm_clients) + 1
             /\ config_reads' = config_reads + 1
             /\ llm_clients'[Len(llm_clients')].chat_adapter =
                   [client |-> cc_op'.ret, model |-> dynamic_config.llm_model,
                    provider |-> dynamic_config.llm_provider]
             /\ cc_op'.provider = dynamic_config.llm_provider
       /\ (Len(llm_clients') = Len(llm_clients)) => config_reads' = config_reads
       /\ (cl_last' # cl_last) =>
             /\ cl_last'.via \in DOMAIN llm_clients
             /\ LET built == llm_clients[cl_last'.via].chat_adapter
                IN  /\ cl_last'.client = built.client
                    /\ cl_last'.model = built.model
                    /\ cl_last'.provider = built.provider]_vars

\* An LLMClient obtained at time 0, then a new model configured and an hour of
\* the TTL gone: the second LLMClient has the new model and a second handle
\* for the same fingerprint, and a later create call through the first one
\* still went out with the old model on the old handle.
C23_Witness ==
    /\ Len(llm_clients) = 2
    /\ Len(constructed) = 2
    /\ constructed[1].at = 0
    /\ constructed[2].at >= 600
    /\ llm_clients[1].chat_adapter.provider = llm_clients[2].chat_adapter.provider
    /\ llm_clients[1].chat_adapter.client = constructed[1].client
    /\ llm_clients[2].chat_adapter.client = constructed[2].client
    /\ llm_clients[1].chat_adapter.model # llm_clients[2].chat_adapter.model
    /\ dynamic_config.llm_model = llm_clients[2].chat_adapter.model
    /\ cl_last.via = 1
    /\ cl_last.at >= constructed[2].at
    /\ cl_last.client = constructed[1].client
    /\ cl_last.model = llm_clients[1].chat_adapter.model
    /\ \A e \in client_cache : e.client # cl_last.client

(***************************************************************************)
(* Properties of error propagation and of the work of one chat call        *)
(***************************************************************************)
\* The step ends the running _call_with_retry with an error: its loop is left
\* without a create call, or a create call fails and is not retried.
CwrFails ==
    \/ ch_pc = "check" /\ ch_pc' # "inflight" /\ ch_pc' # "check"
    \/ /\ ch_pc = "inflight"
       /\ log' # <<>>
       /\ log'[Len(log')].ev = "resp"
       /\ log'[Len(log')].what # "ok"

\* The error a _call_with_retry that fails in this step raises.
CwrError ==
    IF ch_pc = "check" THEN LLMConnectionError("retries_exhausted")
    ELSE LET last == log'[Len(log')]
         IN  CASE last.what = "transport" -> LLMConnectionError("connect_failed")
               [] last.what = "status" /\ last.status = 401 -> LLMAuthError
               [] last.what = "status" /\ last.status = 404 -> LLMModelNotFoundError
               [] last.what = "status" /\ last.status \in {429, 503} ->
                     LLMRateLimitError(attempt)
               [] OTHER -> LLMConnectionError("api_error")

\* C24: whenever a _call_with_retry inside chat fails, in the initial call or
\* in either repair call, chat ends with exactly that error, its kind and
\* context fields unchanged and never LLMOutputParseError, starts no further
\* call and returns no ChatResult; and a chat that has raised keeps its error
\* and never returns a result.
C24_ErrorsPropagate ==
    [][/\ CwrFails =>
             /\ ch_pc' = "raised"
             /\ error' = CwrError
             /\ error'.kind \in {"LLMAuthError", "LLMModelNotFoundError",
                                 "LLMRateLimitError", "LLMConnectionError"}
             /\ error'.provider = AdapterProvider
             /\ result' = NoResult
             /\ calls' = calls
       /\ (ch_pc = "raised") =>
             (ch_pc' = "raised" /\ error' = error /\ result' = NoResult)]_vars

\* The missing-fields repair call, the third _call_with_retry of the chat, was
\* rate limited on all three attempts, and chat raised LLMRateLimitError.
C24_Witness ==
    /\ ch_pc = "raised"
    /\ stage = "repair_schema"
    /\ Len(calls) = 3
    /\ error = LLMRateLimitError(2)
    /\ log # <<>>
    /\ log[Len(log)].what = "status"
    /\ result = NoResult

(***************************************************************************)
(* Properties of the write history of upsert_chunks                        *)
(***************************************************************************)
\* The writes so far whose id list is exactly [x].
SingleWrites(x) == {n \in DOMAIN writes : writes[n].ids = <<x>>}

\* C25: at every point of a call on pairwise distinct ids with batch_size >= 1,
\* whatever writes fail: an id is in failed_ids iff a write of that id alone
\* was attempted and failed, and a write of an id alone is attempted at most
\* once; an id is in success_ids iff a write containing it succeeded, and no
\* later write contains it. So a call that returned with no single-id write
\* failed (each failed batch write followed by successful writes of its
\* sub-batches) has every input id in success_ids and failed_ids empty.
C25_OutcomeMatchesWrites ==
    (IsInjective(chunks) /\ batch_size >= 1)
    => /\ \A x \in Range(chunks) :
             /\ x \in Range(failed_ids)
                   <=> \E n \in SingleWrites(x) : ~writes[n].ok
             /\ Cardinality(SingleWrites(x)) <= 1
             /\ x \in Range(success_ids)
                   <=> \E n \in DOMAIN writes : writes[n].ok /\ x \in Range(writes[n].ids)
             /\ \A n \in DOMAIN writes :
                   (writes[n].ok /\ x \in Range(writes[n].ids))
                   => \A k \in DOMAIN writes : k > n => x \notin Range(writes[k].ids)
       /\ (/\ up_pc = "returned"
           /\ \A n \in DOMAIN writes : ~writes[n].ok => Len(writes[n].ids) > 1)
          => (Range(success_ids) = Range(chunks) /\ failed_ids = <<>>)

\* One batch of three distinct chunks whose write failed once, the writes of
\* its two halves succeeding: three writes, nothing failed.
C25_Witness ==
    /\ up_pc = "returned"
    /\ IsInjective(chunks)
    /\ Len(chunks) = 3
    /\ batch_size = 3
    /\ Len(writes) = 3
    /\ ~writes[1].ok /\ writes[2].ok /\ writes[3].ok
    /\ success_ids = chunks
    /\ failed_ids = <<>>

(***************************************************************************)
(* Properties of the routing of manager operations                         *)
(***************************************************************************)
\* The operation is an upsert_chunks, a query, a count, or a delete_by_doc_id
\* with across_all_models = false, that was given an embedding model and did
\* not raise on its arguments.
OpOnOneModel(o) ==
    /\ o.op \in {"upsert_chunks", "query", "count", "delete_by_doc_id"}
    /\ o.embed_model.given
    /\ ~o.across_all_models
    /\ o.outcome \in {"returned", "called"}

\* Every write of the step went to the collection of the upsert_chunks call
\* in progress.
WritesRouted ==
    (writes' # writes)
    => /\ mg_op.op = "upsert_chunks"
       /\ mg_op' = mg_op
       /\ writes'[Len(writes')].name = ResolvedName[mg_op.embed_model.model]

\* C26 as amended: an upsert_chunks, query, count or single-model delete for
\* embedding model m issues all its backing-store calls, every write of the
\* upsert included, against the collection named build_collection_name(m),
\* whatever operations on other models came before; and a query for m is never
\* evaluated against a collection that the operation before it created for a
\* model that resolves to another collection name.
C26_RoutedByCollectionName ==
    [][/\ WritesRouted
       /\ OpOnOneModel(mg_op')
          => LET m == mg_op'.embed_model.model
             IN  /\ \A n \in DOMAIN store_calls' :
                       store_calls'[n].name = ResolvedName[m]
                 /\ \A n \in DOMAIN store_calls' : \A k \in DOMAIN store_calls :
                       (/\ store_calls'[n].op = "query"
                        /\ store_calls[k].op = "get_or_create"
                        /\ ResolvedName[store_calls[k].embed_model] # ResolvedName[m])
                       => store_calls'[n].name # store_calls[k].name]_vars

\* An upsert_chunks call for "e5" has written to its collection on a manager
\* that had served an operation for "e5" and one for another model before:
\* both collections are cached, and the call created nothing.
C26_Witness ==
    /\ mg_op.op = "upsert_chunks"
    /\ mg_op.embed_model = EmbedModel(<<"e", "5">>)
    /\ store_calls = <<>>
    /\ Cardinality(collection_cache) = 2
    /\ writes # <<>>
    /\ writes[Len(writes)].name = ResolvedName[<<"e", "5">>]

\* C26: an upsert_chunks, query, count or single-model delete for embedding
\* model m issues all its backing-store calls, every write of the upsert
\* included, against the collection named build_collection_name(m), whatever
\* operations on other models came before; and a query for m is never
\* evaluated against a collection that the operation before it created for
\* another model (the embed_model recorded in the collection's metadata).
C26_RoutedToOwnCollection ==
    [][/\ WritesRouted
       /\ OpOnOneModel(mg_op')
          => LET m == mg_op'.embed_model.model
             IN  /\ \A n \in DOMAIN store_calls' :
                       store_calls'[n].name = ResolvedName[m]
                 /\ \A n \in DOMAIN store_calls' : \A k \in DOMAIN store_calls :
                       (/\ store_calls'[n].op = "query"
                        /\ store_calls[k].op = "get_or_create"
                        /\ store_calls[k].embed_model # m)
                       => store_calls'[n].name # store_calls[k].name]_vars

(***************************************************************************)
(* Properties of a chat_stream that its consumer closes early              *)
(***************************************************************************)
\* C27: when the consumer closes the stream after a delta or after the error
\* event, the close raises no exception at the consumer and no further event
\* is delivered.
C27_CloseAfterEventIsQuiet ==
    [][(st_pc \in {"at_delta", "at_error"} /\ st_pc' \in {"closed", "abandoned"})
       => (raised' = None /\ events' = events)]_vars

\* C28: a call on a non-empty input, with any integer batch_size, that returns
\* has every input id in success_ids or in failed_ids.
C28_NoIdSilentlyLost ==
    (up_pc = "returned" /\ chunks # <<>>)
    => Range(chunks) \subseteq (Range(success_ids) \cup Range(failed_ids))

(***************************************************************************)
(* Termination and cost of upsert_chunks                                   *)
(***************************************************************************)
\* The place of an id in an input with pairwise distinct ids.
PosOf(x) == CHOOSE p \in DOMAIN chunks : chunks[p] = x

InInputOrder(s) == \A p \in DOMAIN s : \A q \in DOMAIN s : p < q => PosOf(s[p]) < PosOf(s[q])

\* The top-level batches the loop has started, and the k-th of them.
BatchesStarted == i \div batch_size

TopBatch(k) == Slice(chunks, (k - 1) * batch_size, k * batch_size)

\* The writes so far within one set of ids.
WritesWithin(S) == {n \in DOMAIN writes : Range(writes[n].ids) \subseteq S}

\* During a call with batch_size >= 1: every pending _upsert_batch call has a
\* non-empty batch; the writes so far number at most 2m - 1 for the m chunks
\* of each top-level batch started; and, the ids being pairwise distinct, of
\* two writes the later one is either of a part of the earlier one's batch or
\* of chunks that all come later in the input, and success_ids and failed_ids
\* are in input order.
C29_Bounded ==
    (batch_size >= 1 /\ up_pc \in {"loop", "returned"})
    => /\ \A n \in DOMAIN stack : Len(stack[n]) >= 1
       /\ Len(writes) <= 2 * Min(i, Len(chunks)) - BatchesStarted
       /\ IsInjective(chunks) =>
             /\ \A k \in 1..BatchesStarted :
                   Cardinality(WritesWithin(Range(TopBatch(k)))) <= 2 * Len(TopBatch(k)) - 1
             /\ \A n \in DOMAIN writes : \A k \in DOMAIN writes :
                   (n < k) =>
                      \/ /\ Range(writes[k].ids) \subseteq Range(writes[n].ids)
                         /\ Len(writes[k].ids) < Len(writes[n].ids)
                         /\ ~writes[n].ok
                      \/ \A x \in Range(writes[n].ids) : \A y \in Range(writes[k].ids) :
                            PosOf(x) < PosOf(y)
             /\ InInputOrder(success_ids)
             /\ InInputOrder(failed_ids)

\* A step issues at most one write, and a failed write of more than one chunk
\* is followed by two calls, on the left part and then on the right part of
\* its batch, each non-empty and strictly smaller.
C29_Recursion ==
    /\ Len(writes') <= Len(writes) + 1
    /\ (/\ Len(writes') = Len(writes) + 1
        /\ ~writes'[Len(writes')].ok
        /\ Len(writes'[Len(writes')].ids) > 1)
       => LET batch == writes'[Len(writes')].ids
          IN  /\ Len(stack') = Len(stack) + 1
              /\ stack'[1] \o stack'[2] = batch
              /\ Len(stack'[1]) \in 1..(Len(batch) - 1)
              /\ Len(stack'[2]) \in 1..(Len(batch) - 1)

\* C29: for every input, every batch_size >= 1 and every pattern of failed
\* writes, a backing store that fails every write included, upsert_chunks
\* terminates: a call in its loop returns, a top-level batch of m chunks
\* causes at most 2m - 1 writes, every recursive call is on a strictly smaller
\* non-empty batch, and the writes are issued one at a time, those of the left
\* half before those of the right half, so that success_ids and failed_ids
\* list their ids in input order.
C29_TerminatesWithinBound ==
    /\ []C29_Bounded
    /\ [][C29_Recursion]_vars
    /\ (up_pc = "loop") ~> (up_pc = "returned")

\* A store that failed every write of one batch of three distinct chunks: the
\* call returned after 2 * 3 - 1 = 5 writes with all three ids failed.
C29_Witness ==
    /\ up_pc = "returned"
    /\ IsInjective(chunks)
    /\ Len(chunks) = 3
    /\ batch_size = 3
    /\ Len(writes) = 5
    /\ \A n \in DOMAIN writes : ~writes[n].ok
    /\ failed_ids = chunks

\* The stages of the _call_with_retry invocations of the chat so far, in order.
StagesCalled == [n \in DOMAIN calls |-> calls[n].stage]

TypedErrors ==
    {"LLMAuthError", "LLMModelNotFoundError", "LLMRateLimitError", "LLMConnectionError",
     "LLMOutputParseError"}

\* A chat call has invoked _call_with_retry at most 3 times: the initial
\* request, then at most one invalid-JSON repair, then at most one
\* missing-fields repair; it has issued at most 9 create calls; without
\* response_format "json" it has invoked _call_with_retry exactly once; and
\* when it has ended, it has returned a ChatResult or raised a typed error.
C30_BoundedWork ==
    (ch_pc # "idle")
    => /\ StagesCalled \in {<<"initial">>,
                            <<"initial", "repair_json">>,
                            <<"initial", "repair_schema">>,
                            <<"initial", "repair_json", "repair_schema">>}
       /\ creates <= 9
       /\ (opts.response_format # "json") => (StagesCalled = <<"initial">> /\ creates <= 3)
       /\ (ch_pc = "returned") => (result # NoResult /\ error = NoError)
       /\ (ch_pc = "raised") => (result = NoResult /\ error.kind \in TypedErrors)

\* C30: one chat call always terminates, in a ChatResult or a typed error,
\* after a bounded amount of work: at most 3 _call_with_retry invocations
\* (initial, at most one invalid-JSON repair, at most one missing-fields
\* repair, in that order, none of them repeated), hence at most 9 network
\* attempts, and exactly one invocation without repair when response_format
\* is not json.
C30_ChatTerminatesBounded ==
    /\ []C30_BoundedWork
    /\ (ch_pc \in {"check", "inflight", "sleeping"}) ~> (ch_pc \in {"returned", "raised"})

\* A json call that needed both repairs and whose three _call_with_retry
\* invocations took three attempts each: nine create calls, then the result.
C30_Witness ==
    /\ ch_pc = "returned"
    /\ creates = 9
    /\ StagesCalled = <<"initial", "repair_json", "repair_schema">>
    /\ result # NoResult

=============================================================================
